---- MODULE Spec2Model ----
(***************************************************************************)
(* Model of the recursive-descent Java parser of app/javaparser/parser.py  *)
(* and of the POST /api/parse handler of app/routers/parse.py.             *)
(*                                                                         *)
(* The Parser object is the state: tokens, pos, current_token and          *)
(* error_recovery_points.  Productions are operators over a parser state   *)
(* record `st` that return a result record [st, val, exc]: the parser      *)
(* state after the call, the value returned and the exception raised       *)
(* (kind "none" when the call returned).  Positions are 0-based as in the  *)
(* source; the token at Python index i is tokens[i + 1].  A production     *)
(* calls another one through `self`, the method lookup on the Parser       *)
(* object, defined after the productions.                                  *)
(*                                                                         *)
(* Spec is the handler serving requests with parse().  CursorSpec is a     *)
(* Parser whose cursor methods are called in any order: there program is   *)
(* what the last call returned, raised what it raised, and trace the       *)
(* cursor positions before and after it.                                   *)
(***************************************************************************)
EXTENDS Integers, Sequences, FiniteSets, TLC

\* ------------------------------------------------------------------------
\* Bounds of the checked inputs
\* ------------------------------------------------------------------------
MaxLen == 3
MaxStatements == 2
FirstLine == 2
MaxRequests == 3

\* tokens, pos, current_token, error_recovery_points: the fields of the
\* Parser that serves the current request.  program: the Program parse() is
\* building.  pc: where parse() is.  raised: the exception parse() raised.
\* response: the answer of the handler.  trace: what the last iteration of
\* parse() gave up on or skipped.  recovered: some iteration of the call
\* did.  requests: how many requests were started.  first: the first
\* request and its outcome.
VARIABLES tokens, pos, current_token, error_recovery_points,
          program, pc, raised, response, trace, recovered, requests, first

vars == <<tokens, pos, current_token, error_recovery_points,
          program, pc, raised, response, trace, recovered, requests, first>>

\* ------------------------------------------------------------------------
\* Values
\* ------------------------------------------------------------------------
\* Python's None where a Token is expected (Parser.current_token).
NoToken == [type |-> "None", lexeme |-> "", line |-> 0, column |-> 0]

\* Python's None where an AST node is expected.
NoneNode == [node_type |-> "None"]

Position(line, column) == [line |-> line, column |-> column]

\* errors.py: ParseError(message, line, column) and its subclass
\* UnexpectedTokenError(expected, actual, line, column).  The message of an
\* UnexpectedTokenError is built from expected and actual; it is kept as the
\* pair of its variable parts.
NoExc == [kind |-> "none", message |-> <<>>, line |-> 0, column |-> 0,
          expected |-> "", actual |-> ""]

ParseError(message, line, column) ==
    [kind |-> "ParseError", message |-> <<message>>, line |-> line,
     column |-> column, expected |-> "", actual |-> ""]

UnexpectedTokenError(expected, actual, line, column) ==
    [kind |-> "UnexpectedTokenError", message |-> <<expected, actual>>,
     line |-> line, column |-> column, expected |-> expected, actual |-> actual]

\* Faults that are not ParseErrors: reading an attribute of None, and calling
\* UnexpectedTokenError without its line and column arguments.
AttributeError == [kind |-> "AttributeError", message |-> <<>>, line |-> 0,
                   column |-> 0, expected |-> "", actual |-> ""]

TypeError == [kind |-> "TypeError", message |-> <<>>, line |-> 0,
              column |-> 0, expected |-> "", actual |-> ""]

\* A loop of the parser that never exits: the call neither returns nor
\* raises.  No except clause catches it.
Nontermination == [kind |-> "nontermination", message |-> <<>>, line |-> 0,
                   column |-> 0, expected |-> "", actual |-> ""]

IsParseError(e) == e.kind \in {"ParseError", "UnexpectedTokenError"}
IsException(e) == e.kind \in {"ParseError", "UnexpectedTokenError",
                              "AttributeError", "TypeError"}

Ok(st, val) == [st |-> st, val |-> val, exc |-> NoExc]
Raise(st, e) == [st |-> st, val |-> NoneNode, exc |-> e]
Failed(r) == r.exc.kind # "none"

\* ------------------------------------------------------------------------
\* Token cursor (parser.py 19-71)
\* ------------------------------------------------------------------------
TokenAt(i) == tokens[i + 1]

\* A Parser that starts where the Parser of the previous request stopped.
init_parser_keeping_cursor(toks) ==
    [pos |-> pos,
     current_token |-> IF pos < Len(toks) THEN toks[pos + 1] ELSE NoToken,
     error_recovery_points |-> error_recovery_points,
     trace |-> <<>>]

\* Parser.__init__ on a token list toks.
init_parser(toks) ==
    [pos |-> 0,
     current_token |-> IF toks # <<>> THEN toks[1] ELSE NoToken,
     error_recovery_points |-> <<>>,
     trace |-> <<>>]

\* An advance that counts on without clamping at the end of the tokens.
advance_unclamped(st) ==
    [st EXCEPT !.pos = st.pos + 1,
               !.current_token = IF st.pos + 1 < Len(tokens)
                                 THEN TokenAt(st.pos + 1) ELSE NoToken]

advance(st) ==
    IF st.pos >= Len(tokens) - 1
    THEN [st EXCEPT !.pos = Len(tokens), !.current_token = NoToken]
    ELSE [st EXCEPT !.pos = st.pos + 1, !.current_token = TokenAt(st.pos + 1)]

\* An expect that consumes the token before it compares the lexeme.
expect_consuming_mismatch(st, token_type, value) ==
    IF st.current_token = NoToken \/ st.current_token.type # token_type
    THEN IF st.current_token = NoToken
         THEN Raise(st, AttributeError)
         ELSE Raise(st, UnexpectedTokenError(token_type, st.current_token.type,
                        st.current_token.line, st.current_token.column))
    ELSE IF value # "" /\ st.current_token.lexeme # value
    THEN Raise(advance(st), UnexpectedTokenError("'" \o value \o "'",
                   "'" \o st.current_token.lexeme \o "'",
                   st.current_token.line, st.current_token.column))
    ELSE Ok(advance(st), st.current_token)

\* value = "" stands for the default value=None.
expect(st, token_type, value) ==
    IF st.current_token = NoToken \/ st.current_token.type # token_type
    THEN IF st.current_token = NoToken
         THEN Raise(st, AttributeError)
         ELSE Raise(st, UnexpectedTokenError(token_type, st.current_token.type,
                        st.current_token.line, st.current_token.column))
    ELSE IF value # "" /\ st.current_token.lexeme # value
    THEN Raise(st, UnexpectedTokenError("'" \o value \o "'",
                   "'" \o st.current_token.lexeme \o "'",
                   st.current_token.line, st.current_token.column))
    ELSE Ok(advance(st), st.current_token)

match(st, token_type, value) ==
    IF st.current_token = NoToken THEN FALSE
    ELSE IF st.current_token.type # token_type THEN FALSE
    ELSE IF value # "" /\ st.current_token.lexeme # value THEN FALSE
    ELSE TRUE

current_position(st) ==
    IF st.current_token # NoToken
    THEN Position(st.current_token.line, st.current_token.column)
    ELSE Position(1, 1)

reset_to_position(st, p) ==
    IF p < Len(tokens)
    THEN [st EXCEPT !.pos = p, !.current_token = TokenAt(p)]
    ELSE [st EXCEPT !.pos = p, !.current_token = NoToken]

\* ------------------------------------------------------------------------
\* Error recovery (parser.py 73-100)
\* ------------------------------------------------------------------------
push_recovery_point(st) ==
    [st EXCEPT !.error_recovery_points = Append(@, st.pos)]

pop_recovery_point(st) ==
    IF st.error_recovery_points # <<>>
    THEN [st EXCEPT !.error_recovery_points = SubSeq(@, 1, Len(@) - 1)]
    ELSE st

\* The skipping loop of _recover_from_error (92-98).
RECURSIVE skip_to_sync(_)
skip_to_sync(st) ==
    IF st.current_token # NoToken /\ st.current_token.type # "EOF"
    THEN IF match(st, "KEYWORD", "class") \/ match(st, "KEYWORD", "import")
         THEN st
         ELSE IF match(st, "SEPARATOR", "}") \/ match(st, "SEPARATOR", ";")
         THEN advance(st)
         ELSE skip_to_sync(advance(st))
    ELSE st

\* val is the boolean the method returns.  trace records, for everything
\* the parser gave up on, the method that gave up (by), the position it went
\* back to (start), the position of the cursor when it gave up (fail) and
\* the position parsing resumes at (stop).
recover_from_error(st) ==
    IF st.error_recovery_points = <<>>
    THEN Ok(st, FALSE)
    ELSE LET recovery_pos == st.error_recovery_points[Len(st.error_recovery_points)]
             s1 == pop_recovery_point(reset_to_position(st, recovery_pos))
             s2 == skip_to_sync(s1)
         IN Ok([s2 EXCEPT !.trace = Append(@, [by |-> "_recover_from_error",
                                               start |-> recovery_pos,
                                               fail |-> st.pos,
                                               stop |-> s2.pos])], TRUE)

\* self._advance() over a token that starts nothing the method `by` parses.
skip_token(st, by) ==
    [advance(st) EXCEPT !.trace = Append(@, [by |-> by, start |-> st.pos,
                                             fail |-> st.pos,
                                             stop |-> advance(st).pos])]

\* ------------------------------------------------------------------------
\* AST nodes (ast.py).  Every node carries the ASTNode fields node_type,
\* position, children and name; the subclasses add their own fields with
\* the dataclass defaults.
\* ------------------------------------------------------------------------
ASTNode(node_type, position, children, name) ==
    [node_type |-> node_type, position |-> position, children |-> children,
     name |-> name]

\* ASTNode.add_child (ast.py 68-70): a None child is not appended.
add_child(node, child) ==
    IF child # NoneNode THEN [node EXCEPT !.children = Append(@, child)]
    ELSE node

Identifier(position, name) ==
    [node_type |-> "Identifier", position |-> position, children |-> <<>>,
     name |-> name]

Type(position, name) ==
    [node_type |-> "Type", position |-> position, children |-> <<>>,
     name |-> name, is_array |-> FALSE, generic_types |-> <<>>]

Literal(position, value, literal_type) ==
    [node_type |-> "Literal", position |-> position, children |-> <<>>,
     name |-> "", value |-> value, literal_type |-> literal_type]

BinaryOperation(position, operator, left, right) ==
    [node_type |-> "BinaryOperation", position |-> position,
     children |-> <<>>, name |-> "", operator |-> operator, left |-> left,
     right |-> right]

Assignment(position, variable, value) ==
    [node_type |-> "Assignment", position |-> position, children |-> <<>>,
     name |-> "", operator |-> "=", variable |-> variable, value |-> value]

MethodCall(position, method_name) ==
    [node_type |-> "MethodCall", position |-> position, children |-> <<>>,
     name |-> "", method_name |-> method_name, arguments |-> <<>>,
     target |-> NoneNode]

Parameter(position, param_type, name) ==
    [node_type |-> "Parameter", position |-> position, children |-> <<>>,
     name |-> name, param_type |-> param_type]

VariableDeclaration(position, name) ==
    [node_type |-> "VariableDeclaration", position |-> position,
     children |-> <<>>, name |-> name, var_type |-> NoneNode,
     value |-> NoneNode, modifiers |-> <<>>]

FieldDeclaration(position, field_type, name, modifiers) ==
    [node_type |-> "FieldDeclaration", position |-> position,
     children |-> <<>>, name |-> name, field_type |-> field_type,
     value |-> NoneNode, modifiers |-> modifiers]

Block(position) ==
    [node_type |-> "Block", position |-> position, children |-> <<>>,
     name |-> "", statements |-> <<>>]

MethodDeclaration(position, name, return_type, modifiers) ==
    [node_type |-> "MethodDeclaration", position |-> position,
     children |-> <<>>, name |-> name, return_type |-> return_type,
     parameters |-> <<>>, body |-> NoneNode, modifiers |-> modifiers,
     throws |-> <<>>]

ClassDeclaration(position, name, modifiers) ==
    [node_type |-> "ClassDeclaration", position |-> position,
     children |-> <<>>, name |-> name, modifiers |-> modifiers,
     extends |-> NoneNode, implements |-> <<>>, fields |-> <<>>,
     methods |-> <<>>, constructors |-> <<>>]

Program(position) ==
    [node_type |-> "Program", position |-> position, children |-> <<>>,
     name |-> "", package |-> NoneNode, imports |-> <<>>, classes |-> <<>>]

\* ------------------------------------------------------------------------
\* Types (parser.py 591-635)
\* ------------------------------------------------------------------------
\* self.<method>(...): every call of one parsing method by another goes
\* through the object, as in the source.
RECURSIVE self(_, _, _)

RECURSIVE generic_parameters_loop(_, _), array_suffix_loop(_, _)
\* while self._match("SEPARATOR", "["): advance, expect "]", is_array = True
array_suffix_loop(st, type_node) ==
    IF match(st, "SEPARATOR", "[")
    THEN LET r == expect(advance(st), "SEPARATOR", "]")
         IN IF r.exc # NoExc THEN r
            ELSE array_suffix_loop(r.st, [type_node EXCEPT !.is_array = TRUE])
    ELSE Ok(st, type_node)

parse_type(st) ==
    LET position == current_position(st)
    IN IF st.current_token = NoToken
       THEN Raise(st, UnexpectedTokenError("type", "EOF", 1, 1))
       ELSE IF st.current_token.type \in {"KEYWORD", "IDENTIFIER"}
       THEN LET type_node == Type(position, st.current_token.lexeme)
                s1 == advance(st)
            IN IF match(s1, "OPERATOR", "<")
               THEN LET g == self("parse_generic_parameters", s1, <<>>)
                    IN IF g.exc # NoExc THEN g
                       ELSE array_suffix_loop(g.st,
                                [type_node EXCEPT !.generic_types = g.val])
               ELSE array_suffix_loop(s1, type_node)
       ELSE Raise(st, UnexpectedTokenError("type", st.current_token.type,
                      st.current_token.line, st.current_token.column))

\* while True: parse a type; stop unless a "," follows
generic_parameters_loop(st, generic_types) ==
    LET t == self("parse_type", st, <<>>)
    IN IF t.exc # NoExc THEN t
       ELSE IF ~match(t.st, "SEPARATOR", ",")
       THEN Ok(t.st, Append(generic_types, t.val))
       ELSE generic_parameters_loop(advance(t.st), Append(generic_types, t.val))

parse_generic_parameters(st) ==
    LET r == expect(st, "OPERATOR", "<")
    IN IF r.exc # NoExc THEN r
       ELSE LET l == generic_parameters_loop(r.st, <<>>)
            IN IF l.exc # NoExc THEN l
               ELSE LET c == expect(l.st, "OPERATOR", ">")
                    IN IF c.exc # NoExc THEN c ELSE Ok(c.st, l.val)

\* ------------------------------------------------------------------------
\* Modifiers (parser.py 850-864)
\* ------------------------------------------------------------------------
ModifierKeywords == {"public", "private", "protected", "static", "final",
                     "abstract", "synchronized", "volatile", "transient",
                     "native", "strictfp"}

RECURSIVE modifiers_loop(_, _)
modifiers_loop(st, modifiers) ==
    IF st.current_token # NoToken /\ st.current_token.type = "KEYWORD"
       /\ st.current_token.lexeme \in ModifierKeywords
    THEN modifiers_loop(advance(st), Append(modifiers, st.current_token.lexeme))
    ELSE Ok(st, modifiers)

parse_modifiers(st) == modifiers_loop(st, <<>>)

\* Membership of a string in a Python list of strings.
Contains(seq, x) == \E i \in 1..Len(seq) : seq[i] = x

\* ------------------------------------------------------------------------
\* Expressions (parser.py 1235-1766)
\* ------------------------------------------------------------------------
RECURSIVE logical_or_loop(_, _, _), logical_and_loop(_, _, _),
          equality_loop(_, _, _), relational_loop(_, _, _),
          additive_loop(_, _, _), multiplicative_loop(_, _, _),
          array_initializer_loop(_, _), arguments_loop(_, _),
          lambda_parameters_loop(_, _), block_loop(_, _, _, _),
          switch_loop(_, _), switch_case_loop(_, _), catch_loop(_, _)
AssignmentOperators == {"=", "+=", "-=", "*=", "/=", "%=", "&=", "|=", "^=",
                        "<<=", ">>=", ">>>="}

is_assignment_operator(st) ==
    IF st.current_token = NoToken THEN FALSE
    ELSE st.current_token.lexeme \in AssignmentOperators

\* The current token is an OPERATOR whose lexeme is in ops.
OperatorIn(st, ops) ==
    /\ st.current_token # NoToken
    /\ st.current_token.type = "OPERATOR"
    /\ st.current_token.lexeme \in ops

parse_expression(st) == self("parse_assignment_expression", st, <<>>)

parse_assignment_expression(st) ==
    LET position == current_position(st)
        left == self("parse_conditional_expression", st, <<>>)
    IN IF left.exc # NoExc THEN left
       ELSE IF left.st.current_token # NoToken
               /\ left.st.current_token.type = "OPERATOR"
               /\ is_assignment_operator(left.st)
       THEN LET right == self("parse_assignment_expression", advance(left.st),
               <<>>)
            IN IF right.exc # NoExc THEN right
               ELSE IF right.val # NoneNode
               THEN Ok(right.st, Assignment(position, left.val, right.val))
               ELSE Ok(right.st, left.val)
       ELSE left

parse_conditional_expression(st) ==
    LET position == current_position(st)
        condition == self("parse_logical_or_expression", st, <<>>)
    IN IF condition.exc # NoExc THEN condition
       ELSE IF match(condition.st, "OPERATOR", "?")
       THEN LET then_expr == self("parse_expression", advance(condition.st),
               <<>>)
            IN IF then_expr.exc # NoExc THEN then_expr ELSE
            LET colon == expect(then_expr.st, "OPERATOR", ":")
            IN IF colon.exc # NoExc THEN colon ELSE
            LET else_expr == self("parse_conditional_expression", colon.st,
                    <<>>)
            IN IF else_expr.exc # NoExc THEN else_expr ELSE
               Ok(else_expr.st,
                  add_child(add_child(add_child(
                      ASTNode("BinaryOperation", position, <<>>, ""),
                      condition.val), then_expr.val), else_expr.val))
       ELSE condition

logical_or_loop(st, position, left) ==
    IF OperatorIn(st, {"||"})
    THEN LET operator == st.current_token.lexeme
             right == self("parse_logical_and_expression", advance(st), <<>>)
         IN IF right.exc # NoExc THEN right
            ELSE logical_or_loop(right.st, position,
                     IF right.val # NoneNode
                     THEN BinaryOperation(position, operator, left, right.val)
                     ELSE left)
    ELSE Ok(st, left)

parse_logical_or_expression(st) ==
    LET position == current_position(st)
        left == self("parse_logical_and_expression", st, <<>>)
    IN IF left.exc # NoExc THEN left
       ELSE logical_or_loop(left.st, position, left.val)

logical_and_loop(st, position, left) ==
    IF OperatorIn(st, {"&&"})
    THEN LET operator == st.current_token.lexeme
             right == self("parse_equality_expression", advance(st), <<>>)
         IN IF right.exc # NoExc THEN right
            ELSE logical_and_loop(right.st, position,
                     IF right.val # NoneNode
                     THEN BinaryOperation(position, operator, left, right.val)
                     ELSE left)
    ELSE Ok(st, left)

parse_logical_and_expression(st) ==
    LET position == current_position(st)
        left == self("parse_equality_expression", st, <<>>)
    IN IF left.exc # NoExc THEN left
       ELSE logical_and_loop(left.st, position, left.val)

equality_loop(st, position, left) ==
    IF OperatorIn(st, {"==", "!="})
    THEN LET operator == st.current_token.lexeme
             right == self("parse_relational_expression", advance(st), <<>>)
         IN IF right.exc # NoExc THEN right
            ELSE equality_loop(right.st, position,
                     IF right.val # NoneNode
                     THEN BinaryOperation(position, operator, left, right.val)
                     ELSE left)
    ELSE Ok(st, left)

parse_equality_expression(st) ==
    LET position == current_position(st)
        left == self("parse_relational_expression", st, <<>>)
    IN IF left.exc # NoExc THEN left
       ELSE equality_loop(left.st, position, left.val)

relational_loop(st, position, left) ==
    IF OperatorIn(st, {"<", ">", "<=", ">="})
    THEN LET operator == st.current_token.lexeme
             right == self("parse_additive_expression", advance(st), <<>>)
         IN IF right.exc # NoExc THEN right
            ELSE relational_loop(right.st, position,
                     IF right.val # NoneNode
                     THEN BinaryOperation(position, operator, left, right.val)
                     ELSE left)
    ELSE Ok(st, left)

parse_relational_expression(st) ==
    LET position == current_position(st)
        first_operand == self("parse_additive_expression", st, <<>>)
    IN IF first_operand.exc # NoExc THEN first_operand ELSE
       LET left == relational_loop(first_operand.st, position,
               first_operand.val)
       IN IF left.exc # NoExc THEN left
          ELSE IF match(left.st, "KEYWORD", "instanceof")
          THEN LET type_check == self("parse_type", advance(left.st), <<>>)
               IN IF type_check.exc # NoExc THEN type_check
                  ELSE Ok(type_check.st,
                          add_child(add_child(
                              ASTNode("BinaryOperation", position, <<>>, ""),
                              left.val), type_check.val))
          ELSE left

\* An additive loop whose right operand is a unary expression.
RECURSIVE additive_loop_unary_operand(_, _, _)
additive_loop_unary_operand(st, position, left) ==
    IF OperatorIn(st, {"+", "-"})
    THEN LET operator == st.current_token.lexeme
             right == self("parse_unary_expression", advance(st), <<>>)
         IN IF right.exc # NoExc THEN right
            ELSE IF right.val # NoneNode
            THEN additive_loop_unary_operand(right.st, position,
                     BinaryOperation(position, operator, left, right.val))
            ELSE Ok(right.st, left)
    ELSE Ok(st, left)

\* Unlike the other levels, a missing right operand ends the chain (1395-1397).
additive_loop(st, position, left) ==
    IF OperatorIn(st, {"+", "-"})
    THEN LET operator == st.current_token.lexeme
             right == self("parse_multiplicative_expression", advance(st), <<>>)
         IN IF right.exc # NoExc THEN right
            ELSE IF right.val # NoneNode
            THEN additive_loop(right.st, position,
                     BinaryOperation(position, operator, left, right.val))
            ELSE Ok(right.st, left)
    ELSE Ok(st, left)

parse_additive_expression(st) ==
    LET position == current_position(st)
        left == self("parse_multiplicative_expression", st, <<>>)
    IN IF left.exc # NoExc THEN left
       ELSE additive_loop(left.st, position, left.val)

multiplicative_loop(st, position, left) ==
    IF OperatorIn(st, {"*", "/", "%"})
    THEN LET operator == st.current_token.lexeme
             right == self("parse_unary_expression", advance(st), <<>>)
         IN IF right.exc # NoExc THEN right
            ELSE multiplicative_loop(right.st, position,
                     IF right.val # NoneNode
                     THEN BinaryOperation(position, operator, left, right.val)
                     ELSE left)
    ELSE Ok(st, left)

parse_multiplicative_expression(st) ==
    LET position == current_position(st)
        left == self("parse_unary_expression", st, <<>>)
    IN IF left.exc # NoExc THEN left
       ELSE multiplicative_loop(left.st, position, left.val)

\* The scan of _lookahead_for_cast (1476-1486) from token index temp_pos.
CastFollowTypes == {"IDENTIFIER", "KEYWORD", "INT_LITERAL", "STRING_LITERAL",
                    "BOOLEAN_LITERAL", "FLOAT_LITERAL", "SEPARATOR"}

RECURSIVE cast_scan(_, _)
cast_scan(temp_pos, paren_count) ==
    IF temp_pos < Len(tokens)
    THEN IF TokenAt(temp_pos).lexeme = "("
         THEN cast_scan(temp_pos + 1, paren_count + 1)
         ELSE IF TokenAt(temp_pos).lexeme = ")"
         THEN IF paren_count - 1 = 0
              THEN /\ temp_pos + 1 < Len(tokens)
                   /\ TokenAt(temp_pos + 1).type \in CastFollowTypes
              ELSE cast_scan(temp_pos + 1, paren_count - 1)
         ELSE cast_scan(temp_pos + 1, paren_count)
    ELSE FALSE

lookahead_for_cast(st) == Ok(st, cast_scan(st.pos + 1, 1))

parse_unary_expression(st) ==
    LET position == current_position(st)
    IN IF match(st, "SEPARATOR", "(") /\ lookahead_for_cast(st).val
       THEN self("parse_cast_expression", st, <<>>)
       ELSE IF OperatorIn(st, {"!", "-", "++", "--"})
       THEN LET operand == self("parse_unary_expression", advance(st), <<>>)
            IN IF operand.exc # NoExc THEN operand
               ELSE IF operand.val # NoneNode
               THEN Ok(operand.st,
                       ASTNode("UnaryOperation", position, <<operand.val>>, ""))
               ELSE self("parse_postfix_expression", operand.st, <<>>)
       ELSE self("parse_postfix_expression", st, <<>>)

parse_postfix_expression(st) ==
    LET position == current_position(st)
        expr == self("parse_primary_expression", st, <<>>)
    IN IF expr.exc # NoExc THEN expr
       ELSE IF OperatorIn(expr.st, {"++", "--"})
       THEN Ok(advance(expr.st),
               add_child(ASTNode("UnaryOperation", position, <<>>, ""),
                       expr.val))
       ELSE expr

parse_cast_expression(st) ==
    LET position == current_position(st)
        open == expect(st, "SEPARATOR", "(")
    IN IF open.exc # NoExc THEN open ELSE
       LET cast_type == self("parse_type", open.st, <<>>)
       IN IF cast_type.exc # NoExc THEN cast_type ELSE
       LET close == expect(cast_type.st, "SEPARATOR", ")")
       IN IF close.exc # NoExc THEN close ELSE
       LET expression == self("parse_unary_expression", close.st, <<>>)
       IN IF expression.exc # NoExc THEN expression ELSE
          Ok(expression.st,
             add_child(add_child(ASTNode("BinaryOperation", position, <<>>, ""),
                                 cast_type.val), expression.val))

\* The scan of _lookahead_for_lambda (1666-1672): the index reached.
RECURSIVE lambda_scan(_, _)
lambda_scan(temp_pos, paren_count) ==
    IF temp_pos < Len(tokens) /\ paren_count > 0
    THEN lambda_scan(temp_pos + 1,
             IF TokenAt(temp_pos).lexeme = "(" THEN paren_count + 1
             ELSE IF TokenAt(temp_pos).lexeme = ")" THEN paren_count - 1
             ELSE paren_count)
    ELSE temp_pos

\* The method advances the cursor (1664) and never moves it back.
lookahead_for_lambda(st) ==
    LET temp_pos == lambda_scan(st.pos, 1)
    IN Ok(advance(st),
          /\ temp_pos < Len(tokens)
          /\ TokenAt(temp_pos).type = "OPERATOR"
          /\ TokenAt(temp_pos).lexeme = "-"
          /\ temp_pos + 1 < Len(tokens)
          /\ TokenAt(temp_pos + 1).type = "OPERATOR"
          /\ TokenAt(temp_pos + 1).lexeme = ">")

LiteralTypes == {"INT_LITERAL", "STRING_LITERAL", "BOOLEAN_LITERAL",
                 "FLOAT_LITERAL", "NULL_LITERAL"}

\* token.type.lower().replace('_literal', '')
LiteralTypeName(token_type) ==
    CASE token_type = "INT_LITERAL" -> "int"
      [] token_type = "STRING_LITERAL" -> "string"
      [] token_type = "BOOLEAN_LITERAL" -> "boolean"
      [] token_type = "FLOAT_LITERAL" -> "float"
      [] token_type = "NULL_LITERAL" -> "null"

\* The current token exists and has this lexeme, whatever its type.
LexemeIs(st, lexeme) ==
    st.current_token # NoToken /\ st.current_token.lexeme = lexeme

\* The branches of _parse_primary_expression after the lambda test (1517-1547).
primary_after_lambda_test(st, position) ==
    IF st.current_token # NoToken /\ st.current_token.type \in LiteralTypes
    THEN Ok(advance(st), Literal(position, st.current_token.lexeme,
                                 LiteralTypeName(st.current_token.type)))
    ELSE IF match(st, "IDENTIFIER", "")
    THEN LET identifier == Identifier(position, st.current_token.lexeme)
             s1 == advance(st)
         IN IF LexemeIs(s1, "(")
            THEN self("parse_method_call", s1, <<identifier.name, position>>)
            ELSE IF LexemeIs(s1, ".")
            THEN self("parse_field_access", s1, <<identifier, position>>)
            ELSE IF LexemeIs(s1, "[")
            THEN self("parse_array_access", s1, <<identifier, position>>)
            ELSE Ok(s1, identifier)
    ELSE IF match(st, "SEPARATOR", "(")
    THEN LET expr == self("parse_expression", advance(st), <<>>)
         IN IF expr.exc # NoExc THEN expr ELSE
            LET close == expect(expr.st, "SEPARATOR", ")")
            IN IF close.exc # NoExc THEN close ELSE Ok(close.st, expr.val)
    ELSE IF st.current_token # NoToken
    THEN Ok(advance(st), NoneNode)
    ELSE Ok(st, NoneNode)

parse_primary_expression(st) ==
    LET position == current_position(st)
    IN IF st.current_token = NoToken THEN Ok(st, NoneNode)
       ELSE IF match(st, "SEPARATOR", "{") THEN self("parse_array_initializer",
               st, <<>>)
       ELSE IF match(st, "KEYWORD", "this")
       THEN IF match(advance(st), "SEPARATOR", ".")
            THEN self("parse_field_access", advance(st), <<Identifier(position,
                    "this"), position>>)
            ELSE Ok(advance(st), Identifier(position, "this"))
       ELSE IF match(st, "KEYWORD", "super")
       THEN IF match(advance(st), "SEPARATOR", ".")
            THEN self("parse_field_access", advance(st), <<Identifier(position,
                    "super"), position>>)
            ELSE Ok(advance(st), Identifier(position, "super"))
       ELSE IF match(st, "KEYWORD", "new") THEN self("parse_object_creation",
               st, <<>>)
       ELSE IF match(st, "SEPARATOR", "(")
       THEN LET lambda == lookahead_for_lambda(st)
            IN IF lambda.val THEN self("parse_lambda_expression", lambda.st,
                    <<>>)
               ELSE primary_after_lambda_test(lambda.st, position)
       ELSE primary_after_lambda_test(st, position)

\* while True: element; stop unless a "," follows (1557-1564)
array_initializer_loop(st, array_node) ==
    LET element == self("parse_expression", st, <<>>)
    IN IF element.exc # NoExc THEN element
       ELSE IF ~match(element.st, "SEPARATOR", ",")
       THEN Ok(element.st, add_child(array_node, element.val))
       ELSE array_initializer_loop(advance(element.st),
                                   add_child(array_node, element.val))

parse_array_initializer(st) ==
    LET position == current_position(st)
        open == expect(st, "SEPARATOR", "{")
    IN IF open.exc # NoExc THEN open ELSE
       LET array_node == ASTNode("Block", position, <<>>, "")
           body == IF ~match(open.st, "SEPARATOR", "}")
                   THEN array_initializer_loop(open.st, array_node)
                   ELSE Ok(open.st, array_node)
       IN IF body.exc # NoExc THEN body ELSE
          LET close == expect(body.st, "SEPARATOR", "}")
          IN IF close.exc # NoExc THEN close ELSE Ok(close.st, body.val)

parse_array_access(st, array, position) ==
    LET open == expect(st, "SEPARATOR", "[")
    IN IF open.exc # NoExc THEN open ELSE
       LET index_expr == self("parse_expression", open.st, <<>>)
       IN IF index_expr.exc # NoExc THEN index_expr ELSE
       LET close == expect(index_expr.st, "SEPARATOR", "]")
       IN IF close.exc # NoExc THEN close ELSE
          Ok(close.st,
             add_child(add_child(ASTNode("FieldAccess", position, <<>>, ""),
                                 array), index_expr.val))

\* while not self._match("SEPARATOR", ")"): argument; stop unless "," follows
\* (1590-1597, 1639-1646, 1744-1751)
arguments_loop(st, arguments) ==
    IF ~match(st, "SEPARATOR", ")")
    THEN LET arg == self("parse_expression", st, <<>>)
         IN IF arg.exc # NoExc THEN arg ELSE
            LET args == IF arg.val # NoneNode THEN Append(arguments, arg.val)
                        ELSE arguments
            IN IF ~match(arg.st, "SEPARATOR", ",") THEN Ok(arg.st, args)
               ELSE arguments_loop(advance(arg.st), args)
    ELSE Ok(st, arguments)

parse_method_call(st, method_name, position) ==
    LET open == expect(st, "SEPARATOR", "(")
    IN IF open.exc # NoExc THEN open ELSE
       LET args == arguments_loop(open.st, <<>>)
       IN IF args.exc # NoExc THEN args ELSE
       LET close == expect(args.st, "SEPARATOR", ")")
       IN IF close.exc # NoExc THEN close ELSE
          Ok(close.st, [MethodCall(position, method_name)
                            EXCEPT !.arguments = args.val])

parse_field_access(st, left, position) ==
    LET dot == expect(st, "OPERATOR", ".")
    IN IF dot.exc # NoExc THEN dot
       ELSE IF dot.st.current_token = NoToken
               \/ dot.st.current_token.type # "IDENTIFIER"
       THEN Raise(dot.st, TypeError)
       ELSE
       LET field_name == dot.st.current_token.lexeme
           s1 == advance(dot.st)
           field_access ==
               add_child(add_child(ASTNode("FieldAccess", position, <<>>, ""),
                                   left),
                         Identifier(current_position(s1), field_name))
       IN IF LexemeIs(s1, "(")
          THEN self("parse_method_call_chain", s1, <<field_access, field_name,
                  position>>)
          ELSE IF LexemeIs(s1, ".")
          THEN self("parse_field_access", s1, <<field_access, position>>)
          ELSE IF LexemeIs(s1, "[")
          THEN LET array_access == self("parse_array_access", s1,
                  <<field_access, position>>)
               IN IF array_access.exc # NoExc THEN array_access
                  ELSE IF LexemeIs(array_access.st, ".")
                  THEN self("parse_field_access", array_access.st,
                          <<array_access.val, position>>)
                  ELSE array_access
          ELSE Ok(s1, field_access)

parse_method_call_chain(st, target, method_name, position) ==
    LET open == expect(st, "SEPARATOR", "(")
    IN IF open.exc # NoExc THEN open ELSE
       LET args == arguments_loop(open.st, <<>>)
       IN IF args.exc # NoExc THEN args ELSE
       LET close == expect(args.st, "SEPARATOR", ")")
       IN IF close.exc # NoExc THEN close ELSE
       LET method_call == [add_child(MethodCall(position, method_name), target)
                               EXCEPT !.arguments = args.val]
       IN IF LexemeIs(close.st, ".")
          THEN self("parse_field_access", close.st, <<method_call, position>>)
          ELSE IF LexemeIs(close.st, "[")
          THEN LET array_access == self("parse_array_access", close.st,
                  <<method_call, position>>)
               IN IF array_access.exc # NoExc THEN array_access
                  ELSE IF LexemeIs(array_access.st, ".")
                  THEN self("parse_field_access", array_access.st,
                          <<array_access.val, position>>)
                  ELSE array_access
          ELSE Ok(close.st, method_call)

parse_lambda_expression(st) ==
    LET position == current_position(st)
        parameters == self("parse_lambda_parameters", st, <<>>)
    IN IF parameters.exc # NoExc THEN parameters ELSE
       LET minus == expect(parameters.st, "OPERATOR", "-")
       IN IF minus.exc # NoExc THEN minus ELSE
       LET greater == expect(minus.st, "OPERATOR", ">")
       IN IF greater.exc # NoExc THEN greater ELSE
       LET body == self("parse_lambda_body", greater.st, <<>>)
       IN IF body.exc # NoExc THEN body ELSE
          Ok(body.st,
             add_child(add_child(
                 ASTNode("MethodDeclaration", position, <<>>, ""),
                 parameters.val), body.val))

\* while True: optional identifier; stop unless "," follows (1713-1722)
lambda_parameters_loop(st, params_node) ==
    LET named == match(st, "IDENTIFIER", "")
        s1 == IF named THEN advance(st) ELSE st
        node == IF named
                THEN add_child(params_node,
                         Parameter(current_position(s1), NoneNode,
                                   st.current_token.lexeme))
                ELSE params_node
    IN IF ~match(s1, "SEPARATOR", ",") THEN Ok(s1, node)
       ELSE lambda_parameters_loop(advance(s1), node)

parse_lambda_parameters(st) ==
    LET position == current_position(st)
    IN IF match(st, "IDENTIFIER", "")
       THEN Ok(advance(st),
               add_child(ASTNode("Parameter", position, <<>>, ""),
                         Identifier(position, st.current_token.lexeme)))
       ELSE LET open == expect(st, "SEPARATOR", "(")
            IN IF open.exc # NoExc THEN open ELSE
               LET params_node == ASTNode("Block", position, <<>>, "")
                   params == IF ~match(open.st, "SEPARATOR", ")")
                             THEN lambda_parameters_loop(open.st, params_node)
                             ELSE Ok(open.st, params_node)
                   close == expect(params.st, "SEPARATOR", ")")
               IN IF close.exc # NoExc THEN close ELSE Ok(close.st, params.val)

parse_lambda_body(st) ==
    IF match(st, "SEPARATOR", "{") THEN self("parse_block", st, <<>>)
    ELSE self("parse_expression", st, <<>>)

parse_object_creation(st) ==
    LET position == current_position(st)
        new == expect(st, "KEYWORD", "new")
    IN IF new.exc # NoExc THEN new ELSE
       LET object_type == self("parse_type", new.st, <<>>)
       IN IF object_type.exc # NoExc THEN object_type ELSE
       LET args == IF match(object_type.st, "SEPARATOR", "(")
                   THEN LET l == arguments_loop(advance(object_type.st), <<>>)
                        IN IF l.exc # NoExc THEN l ELSE
                           LET close == expect(l.st, "SEPARATOR", ")")
                           IN IF close.exc # NoExc THEN close
                              ELSE Ok(close.st, l.val)
                   ELSE Ok(object_type.st, <<>>)
       IN IF args.exc # NoExc THEN args ELSE
       LET anonymous_class == IF match(args.st, "SEPARATOR", "{")
                              THEN self("parse_block", args.st, <<>>)
                              ELSE Ok(args.st, NoneNode)
       IN IF anonymous_class.exc # NoExc THEN anonymous_class ELSE
          Ok(anonymous_class.st,
             add_child([ASTNode("MethodCall", position, <<>>, "")
                           EXCEPT !.children = <<object_type.val>> \o args.val],
                       anonymous_class.val))

\* ------------------------------------------------------------------------
\* Statements (parser.py 868-1231, 1807-1818)
\* ------------------------------------------------------------------------
\* What the control flow of the parser depends on, besides the tokens.
ControlState(st) == <<st.pos, st.error_recovery_points>>

\* The loop of _parse_block (875-887).  The message of its ParseError is
\* Russian for "unclosed block".  seen holds the control states in
\* which an iteration began: the loop body is a function of the control
\* state, so an iteration that begins in a state of seen repeats for ever.
block_loop(st, block, position, seen) ==
    IF match(st, "SEPARATOR", "}") THEN Ok(st, block)
    ELSE IF st.current_token # NoToken
    THEN IF ControlState(st) \in seen THEN Raise(st, Nontermination)
         ELSE
         LET stmt == self("parse_statement", push_recovery_point(st), <<>>)
             seen1 == seen \cup {ControlState(st)}
         IN IF stmt.exc = NoExc
            THEN block_loop(pop_recovery_point(stmt.st),
                     IF stmt.val # NoneNode
                     THEN [block EXCEPT !.statements = Append(@, stmt.val)]
                     ELSE block,
                     position, seen1)
            ELSE IF IsParseError(stmt.exc)
            THEN LET rec == recover_from_error(stmt.st)
                 IN IF rec.val THEN block_loop(rec.st, block, position, seen1)
                    ELSE Raise(rec.st, stmt.exc)
            ELSE stmt
    ELSE Raise(st, ParseError("unclosed block", position.line, position.column))

parse_block(st) ==
    LET position == current_position(st)
        open == expect(st, "SEPARATOR", "{")
    IN IF open.exc # NoExc THEN open ELSE
       LET body == block_loop(open.st, Block(position), position, {})
       IN IF body.exc # NoExc THEN body ELSE
          LET close == expect(body.st, "SEPARATOR", "}")
          IN IF close.exc # NoExc THEN close ELSE Ok(close.st, body.val)

\* Both lookaheads restore the cursor in a finally clause; val is the answer.
is_local_variable_declaration(st) ==
    LET start_pos == st.pos
        t == self("parse_type", st, <<>>)
    IN Ok(reset_to_position(t.st, start_pos),
          IF t.exc # NoExc THEN FALSE
          ELSE /\ t.st.current_token # NoToken
               /\ t.st.current_token.type = "IDENTIFIER"
               /\ (match(t.st, "OPERATOR", "=") \/ match(t.st, "SEPARATOR",
                       ";")))

is_variable_declaration(st) ==
    LET start_pos == st.pos
        t == self("parse_type", st, <<>>)
    IN Ok(reset_to_position(t.st, start_pos),
          IF t.exc # NoExc THEN FALSE
          ELSE /\ t.st.current_token # NoToken
               /\ t.st.current_token.type = "IDENTIFIER")

parse_statement(st) ==
    IF st.current_token = NoToken THEN Ok(st, NoneNode)
    ELSE
    LET local == is_local_variable_declaration(st)
        s1 == local.st
    IN IF local.val THEN self("parse_local_variable_declaration", s1, <<>>)
       ELSE IF match(s1, "KEYWORD", "return")
               THEN self("parse_return_statement", s1, <<>>)
       ELSE IF match(s1, "KEYWORD", "if") THEN self("parse_if_statement", s1,
               <<>>)
       ELSE IF match(s1, "KEYWORD", "while") THEN self("parse_while_statement",
               s1, <<>>)
       ELSE IF match(s1, "KEYWORD", "for") THEN self("parse_for_statement", s1,
               <<>>)
       ELSE IF match(s1, "KEYWORD", "try") THEN self("parse_try_statement", s1,
               <<>>)
       ELSE IF match(s1, "KEYWORD", "throw") THEN self("parse_throw_statement",
               s1, <<>>)
       ELSE IF match(s1, "KEYWORD", "switch")
               THEN self("parse_switch_statement", s1, <<>>)
       ELSE IF match(s1, "KEYWORD", "synchronized")
       THEN self("parse_synchronized_statement", s1, <<>>)
       ELSE IF match(s1, "SEPARATOR", "{") THEN self("parse_block", s1, <<>>)
       ELSE LET decl == is_variable_declaration(s1)
            IN IF decl.val THEN self("parse_variable_declaration", decl.st,
                    <<>>)
               ELSE self("parse_expression_statement", decl.st, <<>>)

\* while self.current_token and not "}": a case group, or skip a token
switch_loop(st, switch_node) ==
    IF st.current_token # NoToken /\ ~match(st, "SEPARATOR", "}")
    THEN IF match(st, "KEYWORD", "case") \/ match(st, "KEYWORD", "default")
         THEN LET case_node == self("parse_switch_case", st, <<>>)
              IN IF case_node.exc # NoExc THEN case_node
                 ELSE switch_loop(case_node.st,
                                  add_child(switch_node, case_node.val))
         ELSE switch_loop(advance(st), switch_node)
    ELSE Ok(st, switch_node)

parse_switch_statement(st) ==
    LET position == current_position(st)
        kw == expect(st, "KEYWORD", "switch")
    IN IF kw.exc # NoExc THEN kw ELSE
       LET open == expect(kw.st, "SEPARATOR", "(")
       IN IF open.exc # NoExc THEN open ELSE
       LET switch_expr == self("parse_expression", open.st, <<>>)
       IN IF switch_expr.exc # NoExc THEN switch_expr ELSE
       LET close == expect(switch_expr.st, "SEPARATOR", ")")
       IN IF close.exc # NoExc THEN close ELSE
       LET brace == expect(close.st, "SEPARATOR", "{")
       IN IF brace.exc # NoExc THEN brace ELSE
       LET body == switch_loop(brace.st,
                       add_child(ASTNode("Block", position, <<>>, ""),
                                 switch_expr.val))
       IN IF body.exc # NoExc THEN body ELSE
       LET end == expect(body.st, "SEPARATOR", "}")
       IN IF end.exc # NoExc THEN end ELSE Ok(end.st, body.val)

\* the statements of one case group (959-965, 975-981)
switch_case_loop(st, case_node) ==
    IF /\ st.current_token # NoToken
       /\ ~match(st, "KEYWORD", "case")
       /\ ~match(st, "KEYWORD", "default")
       /\ ~match(st, "SEPARATOR", "}")
    THEN LET stmt == self("parse_statement", st, <<>>)
         IN IF stmt.exc # NoExc THEN stmt
            ELSE switch_case_loop(stmt.st, add_child(case_node, stmt.val))
    ELSE Ok(st, case_node)

parse_switch_case(st) ==
    LET position == current_position(st)
    IN IF match(st, "KEYWORD", "case")
       THEN LET case_expr == self("parse_expression", advance(st), <<>>)
            IN IF case_expr.exc # NoExc THEN case_expr ELSE
               LET colon == expect(case_expr.st, "SEPARATOR", ":")
               IN IF colon.exc # NoExc THEN colon
                  ELSE switch_case_loop(colon.st,
                           add_child(ASTNode("Block", position, <<>>, ""),
                                     case_expr.val))
       ELSE IF match(st, "KEYWORD", "default")
       THEN LET colon == expect(advance(st), "SEPARATOR", ":")
            IN IF colon.exc # NoExc THEN colon
               ELSE switch_case_loop(colon.st,
                                     ASTNode("Block", position, <<>>, ""))
       ELSE Ok(st, NoneNode)

parse_synchronized_statement(st) ==
    LET position == current_position(st)
        kw == expect(st, "KEYWORD", "synchronized")
    IN IF kw.exc # NoExc THEN kw ELSE
       LET open == expect(kw.st, "SEPARATOR", "(")
       IN IF open.exc # NoExc THEN open ELSE
       LET sync_expr == self("parse_expression", open.st, <<>>)
       IN IF sync_expr.exc # NoExc THEN sync_expr ELSE
       LET close == expect(sync_expr.st, "SEPARATOR", ")")
       IN IF close.exc # NoExc THEN close ELSE
       LET sync_block == self("parse_block", close.st, <<>>)
       IN IF sync_block.exc # NoExc THEN sync_block ELSE
          Ok(sync_block.st,
             add_child(add_child(ASTNode("Block", position, <<>>, ""),
                                 sync_expr.val), sync_block.val))

parse_local_variable_declaration(st) ==
    LET position == current_position(st)
        var_type == self("parse_type", st, <<>>)
    IN IF var_type.exc # NoExc THEN var_type
       ELSE IF var_type.st.current_token = NoToken
               \/ var_type.st.current_token.type # "IDENTIFIER"
       THEN Raise(var_type.st, TypeError)
       ELSE
       LET var_decl == add_child(VariableDeclaration(position,
                                     var_type.st.current_token.lexeme),
                                 var_type.val)
           s1 == advance(var_type.st)
           init == IF match(s1, "OPERATOR", "=")
                   THEN self("parse_expression", advance(s1), <<>>)
                   ELSE Ok(s1, NoneNode)
       IN IF init.exc # NoExc THEN init ELSE
          LET semi == expect(init.st, "SEPARATOR", ";")
          IN IF semi.exc # NoExc THEN semi
             ELSE Ok(semi.st, add_child(var_decl, init.val))

\* while self._match("KEYWORD", "catch") (1055-1057)
catch_loop(st, try_node) ==
    IF match(st, "KEYWORD", "catch")
    THEN LET catch_node == self("parse_catch_clause", st, <<>>)
         IN IF catch_node.exc # NoExc THEN catch_node
            ELSE catch_loop(catch_node.st, add_child(try_node, catch_node.val))
    ELSE Ok(st, try_node)

parse_try_statement(st) ==
    LET position == current_position(st)
        kw == expect(st, "KEYWORD", "try")
    IN IF kw.exc # NoExc THEN kw ELSE
       LET try_block == self("parse_block", kw.st, <<>>)
       IN IF try_block.exc # NoExc THEN try_block ELSE
       LET catches == catch_loop(try_block.st,
                          add_child(ASTNode("Block", position, <<>>, ""),
                                    try_block.val))
       IN IF catches.exc # NoExc THEN catches
          ELSE IF match(catches.st, "KEYWORD", "finally")
          THEN LET finally_node == self("parse_finally_clause", catches.st,
                  <<>>)
               IN IF finally_node.exc # NoExc THEN finally_node
                  ELSE Ok(finally_node.st,
                          add_child(catches.val, finally_node.val))
          ELSE catches

parse_catch_clause(st) ==
    LET position == current_position(st)
        kw == expect(st, "KEYWORD", "catch")
    IN IF kw.exc # NoExc THEN kw ELSE
       LET open == expect(kw.st, "SEPARATOR", "(")
       IN IF open.exc # NoExc THEN open ELSE
       LET exception_type == self("parse_type", open.st, <<>>)
       IN IF exception_type.exc # NoExc THEN exception_type
          ELSE IF exception_type.st.current_token = NoToken
                  \/ exception_type.st.current_token.type # "IDENTIFIER"
          THEN Raise(exception_type.st, TypeError)
          ELSE
          LET param_name == exception_type.st.current_token.lexeme
              close == expect(advance(exception_type.st), "SEPARATOR", ")")
          IN IF close.exc # NoExc THEN close ELSE
             LET catch_block == self("parse_block", close.st, <<>>)
             IN IF catch_block.exc # NoExc THEN catch_block ELSE
                Ok(catch_block.st,
                   add_child(add_child(ASTNode("Block", position, <<>>, ""),
                                 Parameter(position, exception_type.val,
                                           param_name)),
                             catch_block.val))

parse_finally_clause(st) ==
    LET kw == expect(st, "KEYWORD", "finally")
    IN IF kw.exc # NoExc THEN kw ELSE self("parse_block", kw.st, <<>>)

parse_variable_declaration(st) ==
    LET position == current_position(st)
        var_type == self("parse_type", st, <<>>)
    IN IF var_type.exc # NoExc THEN var_type
       ELSE IF var_type.st.current_token = NoToken
       THEN Raise(var_type.st, UnexpectedTokenError("IDENTIFIER", "EOF", 1, 1))
       ELSE IF var_type.st.current_token.type # "IDENTIFIER"
       THEN Raise(var_type.st,
                  UnexpectedTokenError("IDENTIFIER",
                      var_type.st.current_token.type,
                      var_type.st.current_token.line,
                      var_type.st.current_token.column))
       ELSE
       LET var_decl == add_child(VariableDeclaration(position,
                                     var_type.st.current_token.lexeme),
                                 var_type.val)
           s1 == advance(var_type.st)
           init == IF match(s1, "OPERATOR", "=")
                   THEN self("parse_expression", advance(s1), <<>>)
                   ELSE Ok(s1, NoneNode)
       IN IF init.exc # NoExc THEN init ELSE
          LET semi == expect(init.st, "SEPARATOR", ";")
          IN IF semi.exc # NoExc THEN semi
             ELSE Ok(semi.st, add_child(var_decl, init.val))

parse_if_statement(st) ==
    LET position == current_position(st)
        kw == expect(st, "KEYWORD", "if")
    IN IF kw.exc # NoExc THEN kw ELSE
       LET open == expect(kw.st, "SEPARATOR", "(")
       IN IF open.exc # NoExc THEN open ELSE
       LET condition == self("parse_expression", open.st, <<>>)
       IN IF condition.exc # NoExc THEN condition ELSE
       LET close == expect(condition.st, "SEPARATOR", ")")
       IN IF close.exc # NoExc THEN close ELSE
       LET then_branch == self("parse_statement", close.st, <<>>)
       IN IF then_branch.exc # NoExc THEN then_branch ELSE
       LET if_node == add_child(add_child(
                          ASTNode("IfStatement", position, <<>>, ""),
                          condition.val), then_branch.val)
       IN IF match(then_branch.st, "KEYWORD", "else")
          THEN LET else_branch == self("parse_statement",
                  advance(then_branch.st), <<>>)
               IN IF else_branch.exc # NoExc THEN else_branch
                  ELSE Ok(else_branch.st, add_child(if_node, else_branch.val))
          ELSE Ok(then_branch.st, if_node)

parse_while_statement(st) ==
    LET position == current_position(st)
        kw == expect(st, "KEYWORD", "while")
    IN IF kw.exc # NoExc THEN kw ELSE
       LET open == expect(kw.st, "SEPARATOR", "(")
       IN IF open.exc # NoExc THEN open ELSE
       LET condition == self("parse_expression", open.st, <<>>)
       IN IF condition.exc # NoExc THEN condition ELSE
       LET close == expect(condition.st, "SEPARATOR", ")")
       IN IF close.exc # NoExc THEN close ELSE
       LET body == self("parse_statement", close.st, <<>>)
       IN IF body.exc # NoExc THEN body ELSE
          Ok(body.st,
             add_child(add_child(ASTNode("WhileStatement", position, <<>>, ""),
                                 condition.val), body.val))

\* the init clause of _parse_for_statement (1172-1181)
for_init(st, for_node, position) ==
    IF ~match(st, "SEPARATOR", ";")
    THEN LET decl == is_variable_declaration(st)
         IN IF decl.val
            THEN LET init == self("parse_variable_declaration", decl.st, <<>>)
                 IN IF init.exc # NoExc THEN init
                    ELSE Ok(init.st, add_child(for_node, init.val))
            ELSE LET init == self("parse_expression", decl.st, <<>>)
                 IN IF init.exc # NoExc THEN init ELSE
                    LET semi == expect(init.st, "SEPARATOR", ";")
                    IN IF semi.exc # NoExc THEN semi
                       ELSE Ok(semi.st, add_child(for_node, init.val))
    ELSE Ok(advance(st), add_child(for_node, ASTNode("Identifier", position,
            <<>>, "")))

parse_for_statement(st) ==
    LET position == current_position(st)
        kw == expect(st, "KEYWORD", "for")
    IN IF kw.exc # NoExc THEN kw ELSE
       LET open == expect(kw.st, "SEPARATOR", "(")
       IN IF open.exc # NoExc THEN open ELSE
       LET init == for_init(open.st,
                            ASTNode("ForStatement", position, <<>>, ""),
                            position)
       IN IF init.exc # NoExc THEN init ELSE
       LET condition == IF ~match(init.st, "SEPARATOR", ";")
                        THEN self("parse_expression", init.st, <<>>)
                        ELSE Ok(init.st, NoneNode)
       IN IF condition.exc # NoExc THEN condition ELSE
       LET semi == expect(condition.st, "SEPARATOR", ";")
       IN IF semi.exc # NoExc THEN semi ELSE
       LET update == IF ~match(semi.st, "SEPARATOR", ")")
                     THEN self("parse_expression", semi.st, <<>>)
                     ELSE Ok(semi.st, NoneNode)
       IN IF update.exc # NoExc THEN update ELSE
       LET close == expect(update.st, "SEPARATOR", ")")
       IN IF close.exc # NoExc THEN close ELSE
       LET body == self("parse_statement", close.st, <<>>)
       IN IF body.exc # NoExc THEN body ELSE
          Ok(body.st,
             add_child(add_child(add_child(init.val, condition.val),
                                 update.val), body.val))

parse_expression_statement(st) ==
    LET position == current_position(st)
        expr == self("parse_expression", st, <<>>)
    IN IF expr.exc # NoExc THEN expr ELSE
       LET s1 == IF expr.st.current_token # NoToken
                    /\ match(expr.st, "SEPARATOR", ";")
                 THEN advance(expr.st) ELSE expr.st
       IN Ok(s1, IF expr.val # NoneNode
                 THEN ASTNode("ExpressionStatement", position, <<expr.val>>, "")
                 ELSE NoneNode)

parse_return_statement(st) ==
    LET position == current_position(st)
        kw == expect(st, "KEYWORD", "return")
    IN IF kw.exc # NoExc THEN kw ELSE
       LET expr == IF ~match(kw.st, "SEPARATOR", ";")
                   THEN self("parse_expression", kw.st, <<>>)
                   ELSE Ok(kw.st, NoneNode)
       IN IF expr.exc # NoExc THEN expr ELSE
       LET semi == expect(expr.st, "SEPARATOR", ";")
       IN IF semi.exc # NoExc THEN semi ELSE
          Ok(semi.st,
             add_child(ASTNode("ReturnStatement", position, <<>>, ""),
                       expr.val))

parse_throw_statement(st) ==
    LET position == current_position(st)
        kw == expect(st, "KEYWORD", "throw")
    IN IF kw.exc # NoExc THEN kw ELSE
       LET throw_expr == self("parse_expression", kw.st, <<>>)
       IN IF throw_expr.exc # NoExc THEN throw_expr ELSE
       LET semi == expect(throw_expr.st, "SEPARATOR", ";")
       IN IF semi.exc # NoExc THEN semi ELSE
          Ok(semi.st,
             add_child(ASTNode("ExpressionStatement", position, <<>>, ""),
                       throw_expr.val))

\* ------------------------------------------------------------------------
\* Class members (parser.py 428-499, 639-848, 1820-1828)
\* ------------------------------------------------------------------------
\* while True: type, optional "...", name; stop unless "," follows (769-796)
RECURSIVE parameters_loop(_, _)
parameters_loop(st, parameters) ==
    LET param_type == self("parse_type", st, <<>>)
    IN IF param_type.exc # NoExc THEN param_type ELSE
       LET is_varargs == match(param_type.st, "OPERATOR", "...")
           s1 == IF is_varargs THEN advance(param_type.st) ELSE param_type.st
       IN IF s1.current_token = NoToken \/ s1.current_token.type # "IDENTIFIER"
          THEN Ok(s1, parameters)
          ELSE
          LET s2 == advance(s1)
              plain == Parameter(current_position(s2), param_type.val,
                                 s1.current_token.lexeme)
              param == IF is_varargs
                       THEN add_child(plain,
                                Identifier(current_position(s2), "..."))
                       ELSE plain
          IN IF ~match(s2, "SEPARATOR", ",")
             THEN Ok(s2, Append(parameters, param))
             ELSE parameters_loop(advance(s2), Append(parameters, param))

parse_parameters(st) ==
    IF match(st, "SEPARATOR", ")") THEN Ok(st, <<>>)
    ELSE parameters_loop(st, <<>>)

\* while True: type; stop unless "," follows (357-363, 418-424, 752-758)
RECURSIVE type_list_loop(_, _)
type_list_loop(st, node) ==
    LET t == self("parse_type", st, <<>>)
    IN IF t.exc # NoExc THEN t
       ELSE IF ~match(t.st, "SEPARATOR", ",")
       THEN Ok(t.st, add_child(node, t.val))
       ELSE type_list_loop(advance(t.st), add_child(node, t.val))

parse_throws_clause(st) ==
    LET position == current_position(st)
        kw == expect(st, "KEYWORD", "throws")
    IN IF kw.exc # NoExc THEN kw
       ELSE type_list_loop(kw.st, ASTNode("Identifier", position, <<>>,
               "throws"))

parse_extends_clause(st) ==
    LET position == current_position(st)
        kw == expect(st, "KEYWORD", "extends")
    IN IF kw.exc # NoExc THEN kw ELSE
       LET base_type == self("parse_type", kw.st, <<>>)
       IN IF base_type.exc # NoExc THEN base_type
          ELSE Ok(base_type.st,
                  add_child(ASTNode("Identifier", position, <<>>, "extends"),
                            base_type.val))

parse_implements_clause(st) ==
    LET position == current_position(st)
        kw == expect(st, "KEYWORD", "implements")
    IN IF kw.exc # NoExc THEN kw
       ELSE type_list_loop(kw.st,
                ASTNode("Identifier", position, <<>>, "implements"))

parse_extends_interface_clause(st) ==
    LET position == current_position(st)
        kw == expect(st, "KEYWORD", "extends")
    IN IF kw.exc # NoExc THEN kw
       ELSE type_list_loop(kw.st,
                ASTNode("Identifier", position, <<>>, "extends"))

\* The answer does not depend on the name of the enclosing class.
lookahead_for_constructor(st) ==
    Ok(st, IF st.pos + 1 < Len(tokens) THEN TokenAt(st.pos + 1).lexeme = "("
           ELSE FALSE)

parse_static_initializer(st, modifiers) ==
    LET position == current_position(st)
        body == self("parse_block", st, <<>>)
    IN IF body.exc # NoExc THEN body
       ELSE Ok(body.st,
               [MethodDeclaration(position, "<static_initializer>", NoneNode,
                                  modifiers) EXCEPT !.body = body.val])

parse_instance_initializer(st) ==
    LET position == current_position(st)
        body == self("parse_block", st, <<>>)
    IN IF body.exc # NoExc THEN body
       ELSE Ok(body.st,
               [MethodDeclaration(position, "<instance_initializer>",
                                  NoneNode, <<>>) EXCEPT !.body = body.val])

\* Shared by _parse_method_declaration_complete and
\* _parse_interface_method_declaration: the body after the header (736-741,
\* 475-480).  A ";" leaves body = None.
method_body(st, method) ==
    IF match(st, "SEPARATOR", "{")
    THEN LET body == self("parse_block", st, <<>>)
         IN IF body.exc # NoExc THEN body
            ELSE Ok(body.st, [method EXCEPT !.body = body.val])
    ELSE IF match(st, "SEPARATOR", ";") THEN Ok(advance(st), method)
    ELSE Ok(st, [method EXCEPT !.body = Block(current_position(st))])

parse_method_declaration_complete(st, position, modifiers, return_type, method_name) ==
    LET open == expect(st, "SEPARATOR", "(")
    IN IF open.exc # NoExc THEN open ELSE
       LET parameters == self("parse_parameters", open.st, <<>>)
       IN IF parameters.exc # NoExc THEN parameters ELSE
       LET close == expect(parameters.st, "SEPARATOR", ")")
       IN IF close.exc # NoExc THEN close ELSE
       LET method == [MethodDeclaration(position, method_name, return_type,
                                        modifiers)
                          EXCEPT !.parameters = parameters.val]
       IN IF match(close.st, "KEYWORD", "throws")
          THEN LET throws == self("parse_throws_clause", close.st, <<>>)
               IN IF throws.exc # NoExc THEN throws
                  ELSE method_body(throws.st, add_child(method, throws.val))
          ELSE method_body(close.st, method)

parse_constructor_declaration(st, modifiers) ==
    LET position == current_position(st)
        name == expect(st, "IDENTIFIER", "")
    IN IF name.exc # NoExc THEN name ELSE
       LET open == expect(name.st, "SEPARATOR", "(")
       IN IF open.exc # NoExc THEN open ELSE
       LET parameters == self("parse_parameters", open.st, <<>>)
       IN IF parameters.exc # NoExc THEN parameters ELSE
       LET close == expect(parameters.st, "SEPARATOR", ")")
       IN IF close.exc # NoExc THEN close ELSE
       LET constructor == [MethodDeclaration(position, name.val.lexeme,
                                             NoneNode, modifiers)
                               EXCEPT !.parameters = parameters.val]
           throws == IF match(close.st, "KEYWORD", "throws")
                     THEN self("parse_throws_clause", close.st, <<>>)
                     ELSE Ok(close.st, NoneNode)
       IN IF throws.exc # NoExc THEN throws ELSE
       LET with_throws == add_child(constructor, throws.val)
       IN IF match(throws.st, "SEPARATOR", "{")
          THEN LET body == self("parse_block", throws.st, <<>>)
               IN IF body.exc # NoExc THEN body
                  ELSE Ok(body.st, [with_throws EXCEPT !.body = body.val])
          ELSE Ok(throws.st,
                  [with_throws EXCEPT !.body = Block(current_position(throws.st))])

parse_field_declaration_complete(st, position, modifiers, field_type, field_name) ==
    LET field == FieldDeclaration(position, field_type, field_name, modifiers)
        value == IF match(st, "OPERATOR", "=")
                 THEN self("parse_expression", advance(st), <<>>)
                 ELSE Ok(st, NoneNode)
    IN IF value.exc # NoExc THEN value ELSE
       LET semi == expect(value.st, "SEPARATOR", ";")
       IN IF semi.exc # NoExc THEN semi
          ELSE Ok(semi.st, [field EXCEPT !.value = value.val])

\* The body of the outer try of _parse_class_member (644-684), the inner
\* except ParseError included.
class_member_body(st, start_pos) ==
    LET modifiers == self("parse_modifiers", st, <<>>)
        s1 == modifiers.st
    IN IF match(s1, "SEPARATOR", "{") /\ Contains(modifiers.val, "static")
       THEN self("parse_static_initializer", s1, <<modifiers.val>>)
       ELSE IF match(s1, "SEPARATOR", "{") /\ modifiers.val = <<>>
       THEN self("parse_instance_initializer", s1, <<>>)
       ELSE IF s1.current_token = NoToken
       THEN Ok(reset_to_position(s1, start_pos), NoneNode)
       ELSE IF s1.current_token.type = "IDENTIFIER"
               /\ lookahead_for_constructor(s1).val
       THEN self("parse_constructor_declaration", s1, <<modifiers.val>>)
       ELSE
       LET member_type == self("parse_type", s1, <<>>)
           s2 == member_type.st
           member ==
               IF member_type.exc # NoExc THEN member_type
               ELSE IF s2.current_token = NoToken
                       \/ s2.current_token.type # "IDENTIFIER"
               THEN Ok(reset_to_position(s2, start_pos), NoneNode)
               ELSE IF LexemeIs(advance(s2), "(")
               THEN self("parse_method_declaration_complete", advance(s2),
                       <<current_position(advance(s2)), modifiers.val,
                       member_type.val, s2.current_token.lexeme>>)
               ELSE self("parse_field_declaration_complete", advance(s2),
                       <<current_position(advance(s2)), modifiers.val,
                       member_type.val, s2.current_token.lexeme>>)
       IN IF IsParseError(member.exc)
          THEN Ok(reset_to_position(member.st, start_pos), NoneNode)
          ELSE member

\* except Exception: reset the cursor and return None.
parse_class_member(st) ==
    LET start_pos == st.pos
        member == class_member_body(st, start_pos)
        s1 == reset_to_position(member.st, start_pos)
    IN IF IsException(member.exc)
       THEN Ok([s1 EXCEPT !.trace = Append(@, [by |-> "_parse_class_member",
                                               start |-> start_pos,
                                               fail |-> member.st.pos,
                                               stop |-> start_pos])],
               NoneNode)
       ELSE member

parse_interface_method_declaration(st, position, modifiers, return_type, method_name) ==
    LET open == expect(st, "SEPARATOR", "(")
    IN IF open.exc # NoExc THEN open ELSE
       LET parameters == self("parse_parameters", open.st, <<>>)
       IN IF parameters.exc # NoExc THEN parameters ELSE
       LET close == expect(parameters.st, "SEPARATOR", ")")
       IN IF close.exc # NoExc THEN close ELSE
          method_body(close.st,
              [MethodDeclaration(position, method_name, return_type, modifiers)
                   EXCEPT !.parameters = parameters.val])

parse_interface_field_declaration(st, position, modifiers, field_type, field_name) ==
    LET field == FieldDeclaration(position, field_type, field_name, modifiers)
        value == IF match(st, "OPERATOR", "=")
                 THEN self("parse_expression", advance(st), <<>>)
                 ELSE Ok(st, NoneNode)
    IN IF value.exc # NoExc THEN value ELSE
       LET semi == expect(value.st, "SEPARATOR", ";")
       IN IF semi.exc # NoExc THEN semi
          ELSE Ok(semi.st, [field EXCEPT !.value = value.val])

\* The body of the try of _parse_interface_member (433-455).
interface_member_body(st, start_pos) ==
    LET parsed == self("parse_modifiers", st, <<>>)
        extra == /\ match(parsed.st, "KEYWORD", "")
                 /\ parsed.st.current_token.lexeme \in {"default", "static"}
        modifiers == IF extra
                     THEN Append(parsed.val, parsed.st.current_token.lexeme)
                     ELSE parsed.val
        s1 == IF extra THEN advance(parsed.st) ELSE parsed.st
        member_type == self("parse_type", s1, <<>>)
        s2 == member_type.st
    IN IF member_type.exc # NoExc THEN member_type
       ELSE IF s2.current_token = NoToken \/ s2.current_token.type # "IDENTIFIER"
       THEN Ok(reset_to_position(s2, start_pos), NoneNode)
       ELSE IF LexemeIs(advance(s2), "(")
       THEN self("parse_interface_method_declaration", advance(s2),
               <<current_position(advance(s2)), modifiers, member_type.val,
               s2.current_token.lexeme>>)
       ELSE self("parse_interface_field_declaration", advance(s2),
               <<current_position(advance(s2)), modifiers, member_type.val,
               s2.current_token.lexeme>>)

parse_interface_member(st) ==
    LET start_pos == st.pos
        member == interface_member_body(st, start_pos)
        s1 == reset_to_position(member.st, start_pos)
    IN IF IsException(member.exc)
       THEN Ok([s1 EXCEPT !.trace =
                       Append(@, [by |-> "_parse_interface_member",
                                  start |-> start_pos,
                                  fail |-> member.st.pos,
                                  stop |-> start_pos])],
               NoneNode)
       ELSE member

\* ------------------------------------------------------------------------
\* Declarations (parser.py 146-284, 556-587, 1770-1799)
\* ------------------------------------------------------------------------
\* Where a parsed member goes: the isinstance tests of the member loops.
add_member(decl, element) ==
    IF element.node_type = "FieldDeclaration"
    THEN [decl EXCEPT !.fields = Append(@, element)]
    ELSE IF element.node_type = "MethodDeclaration"
    THEN [decl EXCEPT !.methods = Append(@, element)]
    ELSE decl

\* A member loop that does not stop at "}".
RECURSIVE class_body_loop_past_brace(_, _, _)
class_body_loop_past_brace(st, class_decl, seen) ==
    IF st.current_token # NoToken
    THEN IF ControlState(st) \in seen THEN Raise(st, Nontermination)
         ELSE
         LET element == self("parse_class_member", push_recovery_point(st),
                 <<>>)
             seen1 == seen \cup {ControlState(st)}
         IN IF element.exc = NoExc
            THEN IF element.val # NoneNode
                 THEN class_body_loop_past_brace(
                          pop_recovery_point(element.st),
                          add_member(class_decl, element.val), seen1)
                 ELSE class_body_loop_past_brace(
                          pop_recovery_point(skip_token(element.st,
                              "_parse_class_declaration_with_modifiers")),
                          class_decl, seen1)
            ELSE IF IsParseError(element.exc)
            THEN LET rec == recover_from_error(element.st)
                 IN IF rec.val
                    THEN class_body_loop_past_brace(rec.st, class_decl,
                             seen1)
                    ELSE Raise(rec.st, element.exc)
            ELSE element
    ELSE Ok(st, class_decl)

\* The member loop of a class body (172-190).
RECURSIVE class_body_loop(_, _, _)
class_body_loop(st, class_decl, seen) ==
    IF st.current_token # NoToken /\ ~match(st, "SEPARATOR", "}")
    THEN IF ControlState(st) \in seen THEN Raise(st, Nontermination)
         ELSE
         LET element == self("parse_class_member", push_recovery_point(st),
                 <<>>)
             seen1 == seen \cup {ControlState(st)}
         IN IF element.exc = NoExc
            THEN IF element.val # NoneNode
                 THEN class_body_loop(pop_recovery_point(element.st),
                          add_member(class_decl, element.val), seen1)
                 ELSE class_body_loop(
                          pop_recovery_point(skip_token(element.st,
                              "_parse_class_declaration_with_modifiers")),
                          class_decl, seen1)
            ELSE IF IsParseError(element.exc)
            THEN LET rec == recover_from_error(element.st)
                 IN IF rec.val THEN class_body_loop(rec.st, class_decl, seen1)
                    ELSE Raise(rec.st, element.exc)
            ELSE element
    ELSE Ok(st, class_decl)

parse_class_declaration_with_modifiers(st, modifiers) ==
    LET position == current_position(st)
        kw == expect(st, "KEYWORD", "class")
    IN IF kw.exc # NoExc THEN kw ELSE
       LET class_name == expect(kw.st, "IDENTIFIER", "")
       IN IF class_name.exc # NoExc THEN class_name ELSE
       LET class_decl == ClassDeclaration(position, class_name.val.lexeme,
                                          modifiers)
           extends == IF match(class_name.st, "KEYWORD", "extends")
                      THEN self("parse_extends_clause", class_name.st, <<>>)
                      ELSE Ok(class_name.st, NoneNode)
       IN IF extends.exc # NoExc THEN extends ELSE
       LET implements == IF match(extends.st, "KEYWORD", "implements")
                         THEN self("parse_implements_clause", extends.st, <<>>)
                         ELSE Ok(extends.st, NoneNode)
       IN IF implements.exc # NoExc THEN implements ELSE
       LET open == expect(implements.st, "SEPARATOR", "{")
       IN IF open.exc # NoExc THEN open ELSE
       LET body == class_body_loop(open.st,
                       add_child(add_child(class_decl, extends.val),
                                 implements.val), {})
       IN IF body.exc # NoExc THEN body ELSE
       LET close == expect(body.st, "SEPARATOR", "}")
       IN IF close.exc # NoExc THEN close ELSE Ok(close.st, body.val)

\* The member loop of an interface body (217-231): a member attempt that
\* yields None does not advance.
RECURSIVE interface_body_loop(_, _, _)
interface_body_loop(st, interface_decl, seen) ==
    IF st.current_token # NoToken /\ ~match(st, "SEPARATOR", "}")
    THEN IF ControlState(st) \in seen THEN Raise(st, Nontermination)
         ELSE
         LET element == self("parse_interface_member", push_recovery_point(st),
                 <<>>)
             seen1 == seen \cup {ControlState(st)}
         IN IF element.exc = NoExc
            THEN interface_body_loop(pop_recovery_point(element.st),
                     IF element.val # NoneNode
                     THEN add_member(interface_decl, element.val)
                     ELSE interface_decl, seen1)
            ELSE IF IsParseError(element.exc)
            THEN LET rec == recover_from_error(element.st)
                 IN IF rec.val
                    THEN interface_body_loop(rec.st, interface_decl, seen1)
                    ELSE Raise(rec.st, element.exc)
            ELSE element
    ELSE Ok(st, interface_decl)

parse_interface_declaration_with_modifiers(st, modifiers) ==
    LET position == current_position(st)
        kw == expect(st, "KEYWORD", "interface")
    IN IF kw.exc # NoExc THEN kw ELSE
       LET interface_name == expect(kw.st, "IDENTIFIER", "")
       IN IF interface_name.exc # NoExc THEN interface_name ELSE
       LET interface_decl == ClassDeclaration(position,
                                 interface_name.val.lexeme, modifiers)
           extends == IF match(interface_name.st, "KEYWORD", "extends")
                      THEN self("parse_extends_interface_clause",
                              interface_name.st, <<>>)
                      ELSE Ok(interface_name.st, NoneNode)
       IN IF extends.exc # NoExc THEN extends ELSE
       LET open == expect(extends.st, "SEPARATOR", "{")
       IN IF open.exc # NoExc THEN open ELSE
       LET body == interface_body_loop(open.st,
                       add_child(interface_decl, extends.val), {})
       IN IF body.exc # NoExc THEN body ELSE
       LET close == expect(body.st, "SEPARATOR", "}")
       IN IF close.exc # NoExc THEN close ELSE Ok(close.st, body.val)

\* The loop of _parse_enum_constants (560-581).
RECURSIVE enum_constants_loop(_, _)
enum_constants_loop(st, constants) ==
    IF /\ st.current_token # NoToken
       /\ st.current_token.type = "IDENTIFIER"
       /\ ~match(st, "SEPARATOR", "}")
    THEN LET constant == Identifier(current_position(st),
                                    st.current_token.lexeme)
             s1 == advance(st)
         IN IF ~match(s1, "SEPARATOR", ",")
            THEN Ok(s1, Append(constants, constant))
            ELSE IF match(advance(s1), "SEPARATOR", "}")
            THEN Ok(advance(s1), Append(constants, constant))
            ELSE enum_constants_loop(advance(s1), Append(constants, constant))
    ELSE Ok(st, constants)

parse_enum_constants(st) ==
    LET constants == enum_constants_loop(st, <<>>)
    IN IF match(constants.st, "SEPARATOR", ";")
       THEN Ok(advance(constants.st), constants.val)
       ELSE constants

\* The member loop of an enum body (267-281): a member attempt that yields
\* None does not advance.
RECURSIVE enum_body_loop(_, _, _)
enum_body_loop(st, enum_decl, seen) ==
    IF st.current_token # NoToken /\ ~match(st, "SEPARATOR", "}")
    THEN IF ControlState(st) \in seen THEN Raise(st, Nontermination)
         ELSE
         LET element == self("parse_class_member", push_recovery_point(st),
                 <<>>)
             seen1 == seen \cup {ControlState(st)}
         IN IF element.exc = NoExc
            THEN enum_body_loop(pop_recovery_point(element.st),
                     IF element.val # NoneNode
                     THEN add_member(enum_decl, element.val)
                     ELSE enum_decl, seen1)
            ELSE IF IsParseError(element.exc)
            THEN LET rec == recover_from_error(element.st)
                 IN IF rec.val THEN enum_body_loop(rec.st, enum_decl, seen1)
                    ELSE Raise(rec.st, element.exc)
            ELSE element
    ELSE Ok(st, enum_decl)

parse_enum_declaration_with_modifiers(st, modifiers) ==
    LET position == current_position(st)
        kw == expect(st, "KEYWORD", "enum")
    IN IF kw.exc # NoExc THEN kw ELSE
       LET enum_name == expect(kw.st, "IDENTIFIER", "")
       IN IF enum_name.exc # NoExc THEN enum_name ELSE
       LET enum_decl == ClassDeclaration(position, enum_name.val.lexeme,
                                         modifiers)
           implements == IF match(enum_name.st, "KEYWORD", "implements")
                         THEN self("parse_implements_clause", enum_name.st,
                                 <<>>)
                         ELSE Ok(enum_name.st, NoneNode)
       IN IF implements.exc # NoExc THEN implements ELSE
       LET open == expect(implements.st, "SEPARATOR", "{")
       IN IF open.exc # NoExc THEN open ELSE
       LET enum_constants == self("parse_enum_constants", open.st, <<>>)
           constant_fields ==
               [i \in 1..Len(enum_constants.val) |->
                   FieldDeclaration(enum_constants.val[i].position,
                       Type(enum_constants.val[i].position,
                            enum_name.val.lexeme),
                       enum_constants.val[i].name,
                       <<"public", "static", "final">>)]
           body == enum_body_loop(enum_constants.st,
                       [add_child(enum_decl, implements.val)
                            EXCEPT !.fields = constant_fields], {})
       IN IF body.exc # NoExc THEN body ELSE
       LET close == expect(body.st, "SEPARATOR", "}")
       IN IF close.exc # NoExc THEN close ELSE Ok(close.st, body.val)

\* The loop of _parse_import (1780-1792): the parts of the dotted name.
RECURSIVE import_loop(_, _)
import_loop(st, import_parts) ==
    IF st.current_token # NoToken
       /\ st.current_token.type \in {"IDENTIFIER", "OPERATOR"}
    THEN IF match(st, "IDENTIFIER", "")
         THEN import_loop(advance(st),
                          Append(import_parts, st.current_token.lexeme))
         ELSE IF match(st, "OPERATOR", ".")
         THEN import_loop(advance(st), Append(import_parts, "."))
         ELSE IF match(st, "OPERATOR", "*")
         THEN Ok(advance(st), Append(import_parts, "*"))
         ELSE Ok(st, import_parts)
    ELSE Ok(st, import_parts)

\* val is the import string, kept as the sequence of the parts it is joined
\* from ("static " first for a static import).
parse_import(st) ==
    LET kw == expect(st, "KEYWORD", "import")
    IN IF kw.exc # NoExc THEN kw ELSE
       LET is_static == match(kw.st, "KEYWORD", "static")
           parts == import_loop(IF is_static THEN advance(kw.st) ELSE kw.st,
                                <<>>)
           semi == expect(parts.st, "SEPARATOR", ";")
       IN IF semi.exc # NoExc THEN semi
          ELSE Ok(semi.st, IF is_static THEN <<"static ">> \o parts.val
                           ELSE parts.val)

\* ------------------------------------------------------------------------
\* Parser.parse (parser.py 104-143)
\* ------------------------------------------------------------------------
\* The body of the try of one iteration of the loop (111-137); val is the
\* program after it.
parse_iteration_body(st, prog) ==
    LET s0 == push_recovery_point(st)
        start_pos == s0.pos
        modifiers == self("parse_modifiers", s0, <<>>)
        s1 == modifiers.st
        decl == IF match(s1, "KEYWORD", "import") THEN self("parse_import", s1,
                <<>>)
                ELSE IF match(s1, "KEYWORD", "class")
                THEN self("parse_class_declaration_with_modifiers", s1,
                        <<modifiers.val>>)
                ELSE IF match(s1, "KEYWORD", "interface")
                THEN self("parse_interface_declaration_with_modifiers", s1,
                        <<modifiers.val>>)
                ELSE IF match(s1, "KEYWORD", "enum")
                THEN self("parse_enum_declaration_with_modifiers", s1,
                        <<modifiers.val>>)
                ELSE Ok(skip_token(reset_to_position(s1, start_pos), "parse"),
                        NoneNode)
    IN IF Failed(decl) THEN decl
       ELSE Ok(pop_recovery_point(decl.st),
               IF match(s1, "KEYWORD", "import")
               THEN [prog EXCEPT !.imports = Append(@, decl.val)]
               ELSE IF decl.val # NoneNode
               THEN [prog EXCEPT !.classes = Append(@, decl.val)]
               ELSE prog)

\* One iteration with its except clause (110-141): except ParseError as e:
\* if not self._recover_from_error(): raise.
parse_iteration_step(st, prog) ==
    LET r == parse_iteration_body(st, prog)
    IN IF IsParseError(r.exc)
       THEN LET rec == recover_from_error(r.st)
            IN IF rec.val THEN Ok(rec.st, prog) ELSE Raise(rec.st, r.exc)
       ELSE r

\* ------------------------------------------------------------------------
\* Method lookup on the Parser object
\* ------------------------------------------------------------------------
self(method, st, args) ==
    CASE method = "parse_type" ->
             parse_type(st)
      [] method = "parse_generic_parameters" ->
             parse_generic_parameters(st)
      [] method = "parse_modifiers" ->
             parse_modifiers(st)
      [] method = "parse_expression" ->
             parse_expression(st)
      [] method = "parse_assignment_expression" ->
             parse_assignment_expression(st)
      [] method = "parse_conditional_expression" ->
             parse_conditional_expression(st)
      [] method = "parse_logical_or_expression" ->
             parse_logical_or_expression(st)
      [] method = "parse_logical_and_expression" ->
             parse_logical_and_expression(st)
      [] method = "parse_equality_expression" ->
             parse_equality_expression(st)
      [] method = "parse_relational_expression" ->
             parse_relational_expression(st)
      [] method = "parse_additive_expression" ->
             parse_additive_expression(st)
      [] method = "parse_multiplicative_expression" ->
             parse_multiplicative_expression(st)
      [] method = "parse_unary_expression" ->
             parse_unary_expression(st)
      [] method = "parse_postfix_expression" ->
             parse_postfix_expression(st)
      [] method = "parse_cast_expression" ->
             parse_cast_expression(st)
      [] method = "parse_primary_expression" ->
             parse_primary_expression(st)
      [] method = "parse_array_initializer" ->
             parse_array_initializer(st)
      [] method = "parse_array_access" ->
             parse_array_access(st, args[1], args[2])
      [] method = "parse_method_call" ->
             parse_method_call(st, args[1], args[2])
      [] method = "parse_field_access" ->
             parse_field_access(st, args[1], args[2])
      [] method = "parse_method_call_chain" ->
             parse_method_call_chain(st, args[1], args[2], args[3])
      [] method = "parse_lambda_expression" ->
             parse_lambda_expression(st)
      [] method = "parse_lambda_parameters" ->
             parse_lambda_parameters(st)
      [] method = "parse_lambda_body" ->
             parse_lambda_body(st)
      [] method = "parse_object_creation" ->
             parse_object_creation(st)
      [] method = "parse_block" ->
             parse_block(st)
      [] method = "parse_statement" ->
             parse_statement(st)
      [] method = "parse_switch_statement" ->
             parse_switch_statement(st)
      [] method = "parse_switch_case" ->
             parse_switch_case(st)
      [] method = "parse_synchronized_statement" ->
             parse_synchronized_statement(st)
      [] method = "parse_local_variable_declaration" ->
             parse_local_variable_declaration(st)
      [] method = "parse_try_statement" ->
             parse_try_statement(st)
      [] method = "parse_catch_clause" ->
             parse_catch_clause(st)
      [] method = "parse_finally_clause" ->
             parse_finally_clause(st)
      [] method = "parse_variable_declaration" ->
             parse_variable_declaration(st)
      [] method = "parse_if_statement" ->
             parse_if_statement(st)
      [] method = "parse_while_statement" ->
             parse_while_statement(st)
      [] method = "parse_for_statement" ->
             parse_for_statement(st)
      [] method = "parse_expression_statement" ->
             parse_expression_statement(st)
      [] method = "parse_return_statement" ->
             parse_return_statement(st)
      [] method = "parse_throw_statement" ->
             parse_throw_statement(st)
      [] method = "parse_parameters" ->
             parse_parameters(st)
      [] method = "parse_throws_clause" ->
             parse_throws_clause(st)
      [] method = "parse_extends_clause" ->
             parse_extends_clause(st)
      [] method = "parse_implements_clause" ->
             parse_implements_clause(st)
      [] method = "parse_extends_interface_clause" ->
             parse_extends_interface_clause(st)
      [] method = "parse_static_initializer" ->
             parse_static_initializer(st, args[1])
      [] method = "parse_instance_initializer" ->
             parse_instance_initializer(st)
      [] method = "parse_method_declaration_complete" ->
             parse_method_declaration_complete(st, args[1], args[2], args[3],
                     args[4])
      [] method = "parse_constructor_declaration" ->
             parse_constructor_declaration(st, args[1])
      [] method = "parse_field_declaration_complete" ->
             parse_field_declaration_complete(st, args[1], args[2], args[3],
                     args[4])
      [] method = "parse_class_member" ->
             parse_class_member(st)
      [] method = "parse_interface_method_declaration" ->
             parse_interface_method_declaration(st, args[1], args[2], args[3],
                     args[4])
      [] method = "parse_interface_field_declaration" ->
             parse_interface_field_declaration(st, args[1], args[2], args[3],
                     args[4])
      [] method = "parse_interface_member" ->
             parse_interface_member(st)
      [] method = "parse_class_declaration_with_modifiers" ->
             parse_class_declaration_with_modifiers(st, args[1])
      [] method = "parse_interface_declaration_with_modifiers" ->
             parse_interface_declaration_with_modifiers(st, args[1])
      [] method = "parse_enum_constants" ->
             parse_enum_constants(st)
      [] method = "parse_enum_declaration_with_modifiers" ->
             parse_enum_declaration_with_modifiers(st, args[1])
      [] method = "parse_import" ->
             parse_import(st)
      [] method = "parse_iteration_step" ->
             parse_iteration_step(st, args[1])

\* The Parser object as a parser state record, with an empty trace.
Self == [pos |-> pos, current_token |-> current_token,
         error_recovery_points |-> error_recovery_points, trace |-> <<>>]

\* The loop condition without its test for an absent token.
LoopConditionWithoutNoneTest == current_token.type # "EOF"

\* while self.current_token and self.current_token.type != "EOF" (109).
LoopCondition == current_token # NoToken /\ current_token.type # "EOF"

\* parse() up to its loop (106-107).
parse_begin ==
    /\ pc = "constructed"
    /\ program' = Program(current_position(Self))
    /\ pc' = "loop"
    /\ UNCHANGED <<tokens, pos, current_token, error_recovery_points, raised,
                   response, trace, recovered, requests, first>>

\* One iteration of the loop of parse().  parse() hangs when the iteration
\* contains a loop that never exits, and when the iteration ends in the
\* control state it began in: every later iteration then does the same.
parse_iteration_end(r) ==
    /\ pos' = r.st.pos
    /\ current_token' = r.st.current_token
    /\ error_recovery_points' = r.st.error_recovery_points
    /\ trace' = r.st.trace
    /\ recovered' = (recovered \/ r.st.trace # <<>>)
    /\ program' = IF Failed(r) THEN program ELSE r.val
    /\ raised' = IF IsException(r.exc) THEN r.exc ELSE raised
    /\ pc' = IF IsException(r.exc) THEN "raised"
             ELSE IF Failed(r) \/ ControlState(r.st) = ControlState(Self)
             THEN "hang" ELSE "loop"

parse_iteration ==
    /\ pc = "loop"
    /\ LoopCondition
    /\ parse_iteration_end(self("parse_iteration_step", Self, <<program>>))
    /\ UNCHANGED <<tokens, response, requests, first>>

\* The loop condition fails: parse() returns the program (143).
parse_return ==
    /\ pc = "loop"
    /\ ~LoopCondition
    /\ pc' = "returned"
    /\ UNCHANGED <<tokens, pos, current_token, error_recovery_points, program,
                   raised, response, trace, recovered, requests, first>>

\* ------------------------------------------------------------------------
\* Requests: the token lists the handler is called with
\* ------------------------------------------------------------------------
\* A token list from a list of <<type, lexeme>> pairs, as the lexer numbers
\* it: every token on line FirstLine, columns from 1.
MakeTokens(kinds) ==
    [i \in 1..Len(kinds) |->
        [type |-> kinds[i][1], lexeme |-> kinds[i][2], line |-> FirstLine,
         column |-> i]]

SeqsUpTo(S, n) == UNION {[1..k -> S] : k \in 0..n}

KwClass == <<"KEYWORD", "class">>
KwInterface == <<"KEYWORD", "interface">>
KwEnum == <<"KEYWORD", "enum">>
KwInt == <<"KEYWORD", "int">>
KwVoid == <<"KEYWORD", "void">>
KwFor == <<"KEYWORD", "for">>
IdA == <<"IDENTIFIER", "A">>
IdF == <<"IDENTIFIER", "f">>
IdX == <<"IDENTIFIER", "x">>
IdY == <<"IDENTIFIER", "y">>
IdZ == <<"IDENTIFIER", "z">>
LBrace == <<"SEPARATOR", "{">>
RBrace == <<"SEPARATOR", "}">>
LParen == <<"SEPARATOR", "(">>
RParen == <<"SEPARATOR", ")">>
Semi == <<"SEPARATOR", ";">>
Assign == <<"OPERATOR", "=">>
Eof == <<"EOF", "">>
KwReturn == <<"KEYWORD", "return">>
KwTry == <<"KEYWORD", "try">>
KwBreak == <<"KEYWORD", "break">>
KwContinue == <<"KEYWORD", "continue">>
KwFinally == <<"KEYWORD", "finally">>
IdString == <<"IDENTIFIER", "String">>
IdObj == <<"IDENTIFIER", "obj">>
IdS == <<"IDENTIFIER", "s">>
IdList == <<"IDENTIFIER", "list">>
Op(lexeme) == <<"OPERATOR", lexeme>>

\* Every token list of at most MaxLen tokens over Alphabet.
Alphabet == {KwClass, IdA, LBrace, RBrace, Semi, Eof}

ShortInputs == {MakeTokens(k) : k \in SeqsUpTo(Alphabet, MaxLen)}

\* class A { int x ; <member> int y ; } for a member declaration with one
\* defect: no type, no name, no initializer after "=", no method name.
MalformedMembers == {<<IdZ, Semi>>,
                     <<KwInt, Semi>>,
                     <<KwInt, IdZ, Assign, Semi>>,
                     <<KwVoid, LParen, RParen, LBrace, RBrace>>}

MemberPrefix == <<KwClass, IdA, LBrace, KwInt, IdX, Semi>>
MemberSuffix == <<KwInt, IdY, Semi, RBrace>>

MemberInputs ==
    {MakeTokens(MemberPrefix \o m \o MemberSuffix) : m \in MalformedMembers}

\* class A { void f ( ) { <statements> } } for every list of at most
\* MaxStatements statements, each well formed or with one defect: no
\* right-hand side, no name, a for header that is not closed, no semicolon.
Statements == {<<IdX, Semi>>,
               <<KwInt, IdX, Semi>>,
               <<IdX, Assign, Semi>>,
               <<KwInt, Assign, Semi>>,
               <<KwFor, LParen, Semi, IdX, Semi>>,
               <<IdX>>}

RECURSIVE Concat(_)
Concat(seqs) == IF seqs = <<>> THEN <<>> ELSE Head(seqs) \o Concat(Tail(seqs))

BlockPrefix == <<KwClass, IdA, LBrace, KwVoid, IdF, LParen, RParen, LBrace>>
BlockSuffix == <<RBrace, RBrace>>

BlockInputs ==
    {MakeTokens(BlockPrefix \o Concat(b) \o BlockSuffix) :
        b \in SeqsUpTo(Statements, MaxStatements)}

\* A class body or a block that the end of the token list leaves open, with
\* and without the EOF token of the lexer.
Unclosed == {<<KwClass, IdA, LBrace>>,
             MemberPrefix,
             BlockPrefix,
             BlockPrefix \o <<IdX, Semi>>,
             BlockPrefix \o <<RBrace>>}

UnclosedInputs ==
    {MakeTokens(u) : u \in Unclosed} \cup
    {MakeTokens(u \o <<Eof>>) : u \in Unclosed}

\* class A { void f ( ) { <statement> } }
StatementInput(statement) ==
    MakeTokens(BlockPrefix \o statement \o BlockSuffix)

\* class A { void f ( ) { return <expression> ; } }
ReturnInput(expression) ==
    MakeTokens(BlockPrefix \o <<KwReturn>> \o expression \o <<Semi>>
               \o BlockSuffix)

\* x ADD y MUL z and x MUL y ADD z for every additive operator ADD and
\* every multiplicative operator MUL.
AdditiveOperators == {"+", "-"}
MultiplicativeOperators == {"*", "/", "%"}

PrecedenceInputs ==
    UNION {{ReturnInput(<<IdX, Op(a), IdY, Op(m), IdZ>>),
            ReturnInput(<<IdX, Op(m), IdY, Op(a), IdZ>>)} :
        <<a, m>> \in AdditiveOperators \X MultiplicativeOperators}

\* x ? y : z and x ? y : z ? x : y.
Ternary(condition, then_expr, else_expr) ==
    condition \o <<Op("?")>> \o then_expr \o <<Op(":")>> \o else_expr

NestedTernary == Ternary(<<IdX>>, <<IdY>>, Ternary(<<IdZ>>, <<IdX>>, <<IdY>>))

TernaryInputs == {ReturnInput(Ternary(<<IdX>>, <<IdY>>, <<IdZ>>)),
                  ReturnInput(NestedTernary)}

\* ( String ) obj
CastOfIdentifier == <<LParen, IdString, RParen, IdObj>>

CastInputs == {ReturnInput(CastOfIdentifier)}

\* ( x + y ) followed by ";" and by an operator in a return statement, and
\* followed by ")" as the update clause of for ( ; ; ( x + y ) ) { }.
Parenthesized == <<LParen, IdX, Op("+"), IdY, RParen>>

ParenthesizedFollowedBy ==
    [semicolon |-> ReturnInput(Parenthesized),
     operator |-> ReturnInput(Parenthesized \o <<Op("*"), IdZ>>),
     paren |-> StatementInput(<<KwFor, LParen, Semi, Semi>> \o Parenthesized
                              \o <<RParen, LBrace, RBrace>>)]

ParenthesizedInputs ==
    {ParenthesizedFollowedBy[f] : f \in DOMAIN ParenthesizedFollowedBy}

\* for ( String s : list ) { }, with the ":" the lexer gives as an operator
\* or as a separator, and for ( int x = y ; x < y ; x ++ ) { }.
ForEachHeader(colon) ==
    <<KwFor, LParen, IdString, IdS, colon, IdList, RParen, LBrace, RBrace>>

ForEachInputs ==
    {StatementInput(ForEachHeader(colon)) :
        colon \in {Op(":"), <<"SEPARATOR", ":">>}}

ThreeClauseFor ==
    <<KwFor, LParen, KwInt, IdX, Assign, IdY, Semi, IdX, Op("<"), IdY, Semi,
      IdX, Op("++"), RParen, LBrace, RBrace>>

ForInputs == ForEachInputs \cup {StatementInput(ThreeClauseFor)}

\* try { } and try { x ; } with neither catch nor finally, and
\* try { } finally { }.
BareTry == {<<KwTry, LBrace, RBrace>>, <<KwTry, LBrace, IdX, Semi, RBrace>>}

BareTryInputs == {StatementInput(t) : t \in BareTry}

TryInputs ==
    BareTryInputs
    \cup {StatementInput(<<KwTry, LBrace, RBrace, KwFinally, LBrace, RBrace>>)}

\* class A { <member> }
ClassInput(member) ==
    MakeTokens(<<KwClass, IdA, LBrace>> \o member \o <<RBrace>>)

\* A ( ) { } and f ( ) { } in class A: an identifier followed by "(", with
\* the name of the class and with another name; and the method
\* void f ( ) { }.
Constructor(name) == <<name, LParen, RParen, LBrace, RBrace>>

ConstructorInputs ==
    {ClassInput(Constructor(IdA)), ClassInput(Constructor(IdF)),
     ClassInput(<<KwVoid>> \o Constructor(IdF)),
     ClassInput(Constructor(IdA) \o <<KwVoid>> \o Constructor(IdF))}

\* A method declared without a body, void f ( ) ;, in a class and in an
\* interface; a method and a constructor that end at their ")".
BodilessMethod == <<KwVoid, IdF, LParen, RParen, Semi>>

BodilessInputs ==
    {ClassInput(BodilessMethod),
     MakeTokens(<<KwInterface, IdA, LBrace>> \o BodilessMethod \o <<RBrace>>),
     ClassInput(<<KwVoid, IdF, LParen, RParen>>),
     ClassInput(<<IdA, LParen, RParen>>)}

\* Expression statements that lack an operand: no left-hand side, no left
\* operand, no operand of "++", no right operand of "+" and of "*"; and the
\* well-formed y = ( x + y ) * z ;.
OperandStatements ==
    {<<RParen, Assign, IdY, Semi>>,
     <<RParen, Op("+"), IdY, Semi>>,
     <<Op("*"), Op("++"), Semi>>,
     <<IdX, Op("+"), Semi>>,
     <<IdX, Op("*"), Semi>>,
     <<IdY, Assign>> \o Parenthesized \o <<Op("*"), IdZ, Semi>>}

OperandInputs == {StatementInput(s) : s \in OperandStatements}

\* class X { } for several identifiers X, without and with the EOF token of
\* the lexer.
ClassNames == {IdA, IdF, IdX, IdString}

MinimalClass(name, end) == MakeTokens(<<KwClass, name, LBrace, RBrace>> \o end)

MinimalClassInputs ==
    {MinimalClass(name, end) : name \in ClassNames, end \in {<<>>, <<Eof>>}}

\* break and continue statements, bare and with the label x, as the only
\* statement of a method body.
JumpKeywords == {KwBreak, KwContinue}

JumpStatement(keyword, label) == <<keyword>> \o label \o <<Semi>>

BreakContinueInputs ==
    {StatementInput(JumpStatement(k, l)) :
        <<k, l>> \in JumpKeywords \X {<<>>, <<IdX>>}}

\* A class, interface or enum body with one token that starts no member.
BodyKeywords == {KwClass, KwInterface, KwEnum}
BodyPrefix(keyword) == <<keyword, IdA, LBrace>>
StrayTokens == {RParen, Assign}

StrayMemberInputs ==
    {MakeTokens(BodyPrefix(k) \o <<t, RBrace>>) :
        <<k, t>> \in BodyKeywords \X StrayTokens}

\* A declaration that fails at program level, followed by an interface or
\* an enum declaration.
FailedDeclarations == {<<KwEnum, IdA>>, <<KwInterface, IdA>>}
NextDeclarations == {<<KwInterface, IdF, LBrace, RBrace>>, <<KwEnum, IdF, LBrace, RBrace>>}

ProgramLevelFailureInputs ==
    {MakeTokens(f \o n) : <<f, n>> \in FailedDeclarations \X NextDeclarations}

\* for ( init ; condition ; update ) { } with each clause present or empty.
ForClauses ==
    [init : {<<>>, <<IdX, Assign, IdY>>}, condition : {<<>>, <<IdX>>},
     update : {<<>>, <<IdY>>}]

ForWithClauses(c) ==
    <<KwFor, LParen>> \o c.init \o <<Semi>> \o c.condition \o <<Semi>>
        \o c.update \o <<RParen, LBrace, RBrace>>

ForClauseInputs == {StatementInput(ForWithClauses(c)) : c \in ForClauses}

ExpressionInputs ==
    PrecedenceInputs \cup TernaryInputs \cup CastInputs
    \cup ParenthesizedInputs

ControlInputs ==
    ForInputs \cup TryInputs \cup OperandInputs \cup BreakContinueInputs
        \cup ForClauseInputs

DeclarationInputs ==
    ConstructorInputs \cup BodilessInputs \cup MinimalClassInputs
        \cup StrayMemberInputs \cup ProgramLevelFailureInputs

Inputs ==
    ShortInputs \cup MemberInputs \cup BlockInputs \cup UnclosedInputs
    \cup ExpressionInputs \cup ControlInputs \cup DeclarationInputs

\* A request served between two requests for the same tokens.
OtherRequests == {MakeTokens(<<KwClass, IdA, LBrace>>)}

\* ------------------------------------------------------------------------
\* POST /api/parse (routers/parse.py 22-59)
\* ------------------------------------------------------------------------
NoResponse == [status |-> 0, message |-> <<>>, line |-> 0, column |-> 0,
               success |-> FALSE]

NoFirst == [tokens |-> <<>>, pc |-> "none", program |-> NoneNode,
            raised |-> NoExc, between |-> 0]

\* The handler is called: parser = Parser(tokens) (routers/parse.py 26-27).
\* The first request is for any of the inputs; a later one is for the tokens
\* of the first request again or for another request, which first.between
\* counts.
parse_java_call ==
    /\ pc = "idle" \/ response # NoResponse
    /\ requests < MaxRequests
    /\ \E toks \in IF requests = 0 THEN Inputs
                   ELSE {first.tokens} \cup OtherRequests :
          /\ tokens' = toks
          /\ pos' = init_parser(toks).pos
          /\ current_token' = init_parser(toks).current_token
          /\ error_recovery_points' = init_parser(toks).error_recovery_points
          /\ first' = IF requests > 0 /\ toks # first.tokens
                      THEN [first EXCEPT !.between = @ + 1]
                      ELSE first
    /\ program' = NoneNode
    /\ pc' = "constructed"
    /\ raised' = NoExc
    /\ response' = NoResponse
    /\ trace' = <<>>
    /\ recovered' = FALSE
    /\ requests' = requests + 1

\* The answer of the handler to what parser.parse() did (28-59).
parse_java_response(outcome, exc) ==
    IF outcome = "returned"
    THEN [status |-> 200, message |-> <<"Parsing completed successfully">>,
          line |-> 0, column |-> 0, success |-> TRUE]
    ELSE IF IsParseError(exc)
    THEN [status |-> 422, message |-> exc.message, line |-> exc.line,
          column |-> exc.column, success |-> FALSE]
    ELSE IF exc.kind = "ValueError"
    THEN [status |-> 400, message |-> <<"Invalid request">>, line |-> 0,
          column |-> 0, success |-> FALSE]
    ELSE [status |-> 500,
            message |-> <<"Internal server error during parsing">>,
          line |-> 0, column |-> 0, success |-> FALSE]

\* parser.parse() returned or raised: the handler answers.  first keeps the
\* tokens of the first request and what parse() did with them.
parse_java_return ==
    /\ pc \in {"returned", "raised"}
    /\ response = NoResponse
    /\ response' = parse_java_response(pc, raised)
    /\ first' = IF requests = 1
                THEN [tokens |-> tokens, pc |-> pc, program |-> program,
                      raised |-> raised, between |-> 0]
                ELSE first
    /\ UNCHANGED <<tokens, pos, current_token, error_recovery_points, program,
                   pc, raised, trace, recovered, requests>>

\* ------------------------------------------------------------------------
\* The service
\* ------------------------------------------------------------------------
\* No request has been received.
Init ==
    /\ tokens = <<>>
    /\ pos = 0
    /\ current_token = NoToken
    /\ error_recovery_points = <<>>
    /\ program = NoneNode
    /\ pc = "idle"
    /\ raised = NoExc
    /\ response = NoResponse
    /\ trace = <<>>
    /\ recovered = FALSE
    /\ requests = 0
    /\ first = NoFirst

Next ==
    \/ parse_java_call
    \/ parse_begin
    \/ parse_iteration
    \/ parse_return
    \/ parse_java_return

Spec == Init /\ [][Next]_vars

\* ------------------------------------------------------------------------
\* The cursor operations of a Parser, called in any order (parser.py 19-81)
\* ------------------------------------------------------------------------
\* The arguments _expect and _match are called with.
ExpectedTypes == {"IDENTIFIER", "SEPARATOR", "KEYWORD"}
ExpectedValues == {"", "{", "class"}

\* The recovery points hold the saved positions; at most MaxSaved are held.
MaxSaved == 1

\* The token lists the cursor methods are called on: every list of up to
\* MaxLen tokens of these kinds.
CursorAlphabet == {KwClass, IdA, LBrace, Semi}

CursorInputs == {MakeTokens(k) : k \in SeqsUpTo(CursorAlphabet, MaxLen)}

\* Parser(tokens) for any of these token lists.
cursor_init ==
    /\ tokens \in CursorInputs
    /\ pos = init_parser(tokens).pos
    /\ current_token = init_parser(tokens).current_token
    /\ error_recovery_points = init_parser(tokens).error_recovery_points
    /\ program = NoneNode
    /\ pc = "constructed"
    /\ raised = NoExc
    /\ response = NoResponse
    /\ trace = <<>>
    /\ recovered = FALSE
    /\ requests = 0
    /\ first = NoFirst

\* A call of the method `by` that gives r: the parser is left in r.st,
\* program is what the call returned, raised what it raised, and trace the
\* positions of the cursor before (start) and after (stop) this one call.
cursor_call(by, r) ==
    /\ pc = "constructed"
    /\ pos' = r.st.pos
    /\ current_token' = r.st.current_token
    /\ error_recovery_points' = r.st.error_recovery_points
    /\ program' = r.val
    /\ raised' = r.exc
    /\ trace' = <<[by |-> by, start |-> pos, fail |-> pos, stop |-> r.st.pos]>>
    /\ UNCHANGED <<tokens, pc, response, recovered, requests, first>>

call_advance == cursor_call("_advance", Ok(advance(Self), NoneNode))

call_expect ==
    \E token_type \in ExpectedTypes, value \in ExpectedValues :
        cursor_call("_expect", expect(Self, token_type, value))

call_match ==
    \E token_type \in ExpectedTypes, value \in ExpectedValues :
        cursor_call("_match", Ok(Self, match(Self, token_type, value)))

\* start_pos = self.pos, kept here as a recovery point.
call_push_recovery_point ==
    /\ Len(error_recovery_points) < MaxSaved
    /\ cursor_call("_push_recovery_point", Ok(push_recovery_point(Self),
           NoneNode))

call_pop_recovery_point ==
    cursor_call("_pop_recovery_point", Ok(pop_recovery_point(Self), NoneNode))

\* self._reset_to_position(start_pos) for a saved position.
call_reset_to_position ==
    \E i \in DOMAIN error_recovery_points :
        cursor_call("_reset_to_position",
            Ok(reset_to_position(Self, error_recovery_points[i]), NoneNode))

cursor_next ==
    \/ call_advance
    \/ call_expect
    \/ call_match
    \/ call_push_recovery_point
    \/ call_pop_recovery_point
    \/ call_reset_to_position

CursorSpec == cursor_init /\ [][cursor_next]_vars

\* ------------------------------------------------------------------------
\* Properties
\* ------------------------------------------------------------------------
Finished == pc \in {"returned", "raised"}

IsKeyword(tok, word) == tok.type = "KEYWORD" /\ tok.lexeme = word

\* The record of recovered errors that comes with a Program: the Program
\* node has the fields package, imports and classes and no other (ast.py
\* 326-330), and parse() returns nothing but the node.
recovered_errors(prog) ==
    IF "errors" \in DOMAIN prog THEN prog.errors ELSE <<>>

\* Python index of the token a node was built at: a token's column is its
\* index plus one.
TokenIndex(node) == node.position.column - 1

\* The statements of the bodies of the methods of the classes of a Program.
BodyStatements(prog) ==
    {m.body.statements[i] :
        <<m, i>> \in UNION {UNION {{<<c.methods[j], k>> :
                   k \in IF c.methods[j].body = NoneNode THEN {}
                         ELSE 1..Len(c.methods[j].body.statements)} :
               j \in 1..Len(c.methods)} :
           c \in {prog.classes[n] : n \in 1..Len(prog.classes)}}}

\* The recoveries of the statement loop of a block of the inputs BlockInputs.
BlockRecoveries ==
    {trace[i] : i \in {j \in 1..Len(trace) :
        /\ trace[j].by = "_recover_from_error"
        /\ trace[j].start >= Len(BlockPrefix)}}


\* C1: parse() terminates on every token list: it never stays for ever in
\* its declaration loop, in a member loop or in a statement loop.
ParseTerminates == pc # "hang"

\* C2: when the token after a top-level class keyword is not an IDENTIFIER,
\* parse() neither returns nor hangs, and what it raises is a ParseError.
ClassWithoutName ==
    /\ Len(tokens) >= 1
    /\ IsKeyword(tokens[1], "class")
    /\ Len(tokens) >= 2 => tokens[2].type # "IDENTIFIER"

ClassWithoutNameRaisesParseError ==
    ClassWithoutName =>
        /\ pc \notin {"returned", "hang"}
        /\ pc = "raised" => IsParseError(raised)

\* C3: a request with an invalid token list (no class name, no closing
\* brace, an unexpected token) is answered, and answered with status 422 and
\* success = false.
InvalidRequests == {MakeTokens(<<KwClass, LBrace>>),
                    MakeTokens(<<KwClass, IdA, LBrace>>),
                    MakeTokens(<<KwClass, IdA, Semi>>)}

InvalidRequestAnswered422 ==
    tokens \in InvalidRequests =>
        /\ pc # "hang"
        /\ response # NoResponse =>
              (response.status = 422 /\ response.success = FALSE)

\* C4: on the empty token list parse() does not raise, does not hang and
\* does not move the cursor, and the Program it returns has no classes and
\* no imports.
EmptyTokensGiveEmptyProgram ==
    (requests > 0 /\ tokens = <<>>) =>
        /\ pc \in {"constructed", "loop", "returned"}
        /\ pos = 0
        /\ current_token = NoToken
        /\ raised = NoExc
        /\ pc = "returned" =>
              /\ program.node_type = "Program"
              /\ program.classes = <<>>
              /\ program.imports = <<>>

EmptyTokensParsed ==
    /\ requests > 0
    /\ tokens = <<>>
    /\ pc = "returned"
    /\ program = Program(Position(1, 1))

\* C5: a class body with one malformed member between two well-formed
\* fields gives a class whose fields are exactly the two fields, in order,
\* and that has no method and no constructor.
MalformedMemberContributesNothing ==
    (tokens \in MemberInputs /\ pc = "returned") =>
        /\ Len(program.classes) = 1
        /\ Len(program.classes[1].fields) = 2
        /\ program.classes[1].fields[1].name = "x"
        /\ program.classes[1].fields[2].name = "y"
        /\ program.classes[1].methods = <<>>
        /\ program.classes[1].constructors = <<>>

\* C6: after a statement of a block failed with a ParseError and was
\* recovered, no statement of the tree was built at a token the failed
\* statement had consumed, and parsing resumed right after a ";" or a "}".
RecoveredStatementDiscarded ==
    (tokens \in BlockInputs /\ pc \in {"loop", "returned"}) =>
        \A r \in BlockRecoveries :
            /\ \A s \in BodyStatements(program) :
                  ~(r.start <= TokenIndex(s) /\ TokenIndex(s) < r.fail)
            /\ r.stop >= 1
            /\ TokenAt(r.stop - 1).lexeme \in {";", "}"}

\* C7: a Program that parse() returns after it gave up on a construct or
\* skipped tokens comes with a non-empty record of recovered errors.
RecoverySignalled ==
    (pc = "returned" /\ recovered) => recovered_errors(program) # <<>>

\* C8: when the token list ends before the "}" of a class body or of a
\* block, parse() raises a ParseError with the line and the column of an
\* opening token: the class keyword or a "{".
UnclosedRaisesAtOpening ==
    (tokens \in UnclosedInputs /\ pc \in {"returned", "raised", "hang"}) =>
        /\ pc = "raised"
        /\ IsParseError(raised)
        /\ raised.line = FirstLine
        /\ \E i \in 1..Len(tokens) :
              /\ tokens[i].lexeme \in {"class", "{"}
              /\ raised.column = tokens[i].column

\* C9: in every state of the cursor, also with no current token, an expect
\* that fails raises an UnexpectedTokenError with expected, actual, line
\* and column.
FailedExpectRaisesUnexpectedToken ==
    pc # "idle" =>
        \A token_type \in ExpectedTypes, value \in ExpectedValues :
            Failed(expect(Self, token_type, value)) =>
                /\ expect(Self, token_type, value).exc.kind
                      = "UnexpectedTokenError"
                /\ expect(Self, token_type, value).exc.expected # ""
                /\ expect(Self, token_type, value).exc.actual # ""
                /\ expect(Self, token_type, value).exc.line >= 1
                /\ expect(Self, token_type, value).exc.column >= 1

ReturnedExpression(prog) ==
    LET statements == BodyStatements(prog)
    IN IF /\ Cardinality(statements) = 1
          /\ \A s \in statements :
                s.node_type = "ReturnStatement" /\ Len(s.children) = 1
       THEN (CHOOSE s \in statements : TRUE).children[1]
       ELSE NoneNode

IsIdentifier(node, name) ==
    node.node_type = "Identifier" /\ node.name = name

IsBinaryOperation(node, operator) ==
    /\ node.node_type = "BinaryOperation"
    /\ "operator" \in DOMAIN node
    /\ node.operator = operator

\* C11: multiplicative operators bind tighter than additive ones: for every
\* additive operator ADD and every multiplicative operator MUL,
\* x ADD y MUL z parses to BinaryOperation(ADD, left = x,
\* right = BinaryOperation(MUL, y, z)).
MultiplicativeBindsTighter ==
    \A a \in AdditiveOperators, m \in MultiplicativeOperators :
        Finished /\ tokens = ReturnInput(<<IdX, Op(a), IdY, Op(m), IdZ>>) =>
            /\ pc = "returned"
            /\ LET e == ReturnedExpression(program)
               IN /\ IsBinaryOperation(e, a)
                  /\ IsIdentifier(e.left, "x")
                  /\ IsBinaryOperation(e.right, m)
                  /\ IsIdentifier(e.right.left, "y")
                  /\ IsIdentifier(e.right.right, "z")

\* x - y % z was parsed.
AdditiveOverMultiplicativeParsed ==
    /\ pc = "returned"
    /\ tokens = ReturnInput(<<IdX, Op("-"), IdY, Op("%"), IdZ>>)
    /\ IsBinaryOperation(ReturnedExpression(program), "-")

\* A node of the given type with three children: condition, then, else.
IsTernary(node, node_type) ==
    node.node_type = node_type /\ Len(node.children) = 3

\* C12: the conditional operator is right-associative: x ? y : z ? x : y
\* parses to a node of type TernaryOperation with condition x and
\* then-branch y whose else branch is the TernaryOperation node of
\* z ? x : y.
ConditionalRightAssociative ==
    Finished /\ tokens = ReturnInput(NestedTernary) =>
        /\ pc = "returned"
        /\ LET e == ReturnedExpression(program)
           IN /\ IsTernary(e, "TernaryOperation")
              /\ IsIdentifier(e.children[1], "x")
              /\ IsIdentifier(e.children[2], "y")
              /\ IsTernary(e.children[3], "TernaryOperation")
              /\ IsIdentifier(e.children[3].children[1], "z")
              /\ IsIdentifier(e.children[3].children[2], "x")
              /\ IsIdentifier(e.children[3].children[3], "y")

\* C13: a parenthesized type followed by a token that can start a unary
\* expression, ( String ) obj, parses to a CastExpression node whose target
\* type is the type String and whose operand is the unary expression obj.
CastParsesToCastExpression ==
    Finished /\ tokens = ReturnInput(CastOfIdentifier) =>
        /\ pc = "returned"
        /\ LET e == ReturnedExpression(program)
           IN /\ e.node_type = "CastExpression"
              /\ Len(e.children) = 2
              /\ e.children[1].node_type = "Type"
              /\ e.children[1].name = "String"
              /\ IsIdentifier(e.children[2], "obj")

\* The node of x + y.
IsSum(node) ==
    /\ IsBinaryOperation(node, "+")
    /\ IsIdentifier(node.left, "x")
    /\ IsIdentifier(node.right, "y")

\* The only statement of the only method of a Program, None when there is
\* no such statement.
OnlyStatement(prog) ==
    LET statements == BodyStatements(prog)
    IN IF Cardinality(statements) = 1
       THEN CHOOSE s \in statements : TRUE
       ELSE NoneNode

\* C14: a parenthesized expression that is neither a cast nor a lambda,
\* ( x + y ), parses to the inner BinaryOperation and consumes the tokens
\* from "(" through the matching ")", whatever follows the ")": ";", an
\* operator or ")".  It is not taken for a cast.
ParenthesizedParsesToInner ==
    LET e == ReturnedExpression(program)
        s == OnlyStatement(program)
        follow == ParenthesizedFollowedBy
    IN /\ Finished /\ tokens \in ParenthesizedInputs => pc = "returned"
       /\ Finished /\ tokens = follow.semicolon => IsSum(e)
       /\ Finished /\ tokens = follow.operator =>
             /\ IsBinaryOperation(e, "*")
             /\ IsSum(e.left)
             /\ IsIdentifier(e.right, "z")
       /\ Finished /\ tokens = follow.paren =>
             /\ s.node_type = "ForStatement"
             /\ Len(s.children) = 3
             /\ IsSum(s.children[2])

\* C15: after "for (", a type and an identifier followed by ":" commit to
\* for-each: for ( String s : list ) { } yields a ForEachStatement with
\* var_name "s", var_type String and iterable list; a header without that
\* ":" is parsed as the three-clause ForStatement.
ForEachCommitsOnColon ==
    LET s == OnlyStatement(program)
    IN /\ Finished /\ tokens \in ForEachInputs =>
             /\ pc = "returned"
             /\ s.node_type = "ForEachStatement"
             /\ s.var_name = "s"
             /\ s.var_type.name = "String"
             /\ s.iterable.name = "list"
       /\ Finished /\ tokens = StatementInput(ThreeClauseFor) =>
             /\ pc = "returned"
             /\ s.node_type = "ForStatement"
             /\ Len(s.children) = 4

\* C16: a try block followed by neither a catch clause nor a finally block
\* is rejected with a ParseError positioned at the try keyword, raised by
\* parse() or recovered from by it, and no node is produced for it.
BareTryRejected ==
    Finished /\ tokens \in BareTryInputs =>
        /\ \A s \in BodyStatements(program) : TokenIndex(s) # Len(BlockPrefix)
        /\ \/ /\ pc = "raised"
              /\ IsParseError(raised)
              /\ raised.line = FirstLine
              /\ raised.column = Len(BlockPrefix) + 1
           \/ \E i \in 1..Len(trace) : trace[i].by = "_recover_from_error"

\* The only class of a Program.
OnlyClass(prog) == prog.classes[1]

Names(nodes) == [i \in DOMAIN nodes |-> nodes[i].name]

\* C17: a class member is a constructor exactly when its leading identifier
\* is the name of the enclosing class and is followed by "(": in class A,
\* A ( ) { } is recorded in the constructors list and in no other list, and
\* f ( ) { } is not recorded as a constructor.
ConstructorIffClassName ==
    LET c == OnlyClass(program)
    IN /\ Finished /\ tokens \in ConstructorInputs =>
             pc = "returned" /\ Len(program.classes) = 1
       /\ Finished /\ tokens = ClassInput(Constructor(IdA)) =>
             /\ Names(c.constructors) = <<"A">>
             /\ c.methods = <<>>
             /\ c.fields = <<>>
       /\ Finished /\ tokens = ClassInput(Constructor(IdF)) =>
             c.constructors = <<>>
       /\ Finished /\ tokens = ClassInput(<<KwVoid>> \o Constructor(IdF)) =>
             c.constructors = <<>> /\ Names(c.methods) = <<"f">>
       /\ Finished /\ tokens
             = ClassInput(Constructor(IdA) \o <<KwVoid>> \o Constructor(IdF)) =>
             /\ Names(c.constructors) = <<"A">>
             /\ Names(c.methods) = <<"f">>

\* The method and constructor nodes of the classes of a Program.
AllMethods(prog) ==
    UNION {{c.methods[j] : j \in DOMAIN c.methods}
           \cup {c.constructors[j] : j \in DOMAIN c.constructors} :
        c \in {prog.classes[n] : n \in DOMAIN prog.classes}}

\* C18: every method or constructor node in a returned tree has a body: a
\* method declared without a body, whose declaration ends with ";", gets an
\* empty Block.
EveryMethodHasBody ==
    pc = "returned" =>
        \A m \in AllMethods(program) :
            m.body # NoneNode /\ m.body.node_type = "Block"

\* The nodes a node holds in its fields and its children.
Elements(nodes) == {nodes[i] : i \in DOMAIN nodes}

Kids(node) ==
    Elements(node.children) \cup
    CASE node.node_type = "BinaryOperation" /\ "operator" \in DOMAIN node ->
             {node.left, node.right}
      [] node.node_type = "Assignment" -> {node.variable, node.value}
      [] node.node_type = "MethodCall" ->
             Elements(node.arguments) \cup {node.target}
      [] node.node_type \in {"VariableDeclaration", "FieldDeclaration"} ->
             {node.value}
      [] node.node_type = "Block" -> Elements(node.statements)
      [] node.node_type = "MethodDeclaration" -> {node.body}
      [] node.node_type = "ClassDeclaration" ->
             Elements(node.fields) \cup Elements(node.methods)
             \cup Elements(node.constructors)
      [] node.node_type = "Program" -> Elements(node.classes)
      [] OTHER -> {}

\* The nodes of a tree.
RECURSIVE Descendants(_)
Descendants(node) ==
    IF node = NoneNode THEN {}
    ELSE {node} \cup UNION {Descendants(k) : k \in Kids(node)}

\* C19: in every tree parse() returns, every Assignment has its variable
\* and its value, every BinaryOperation has its left and its right, and
\* every UnaryOperation has its operand.
NoAbsentOperand ==
    pc = "returned" =>
        \A n \in Descendants(program) :
            /\ n.node_type = "Assignment" =>
                   n.variable # NoneNode /\ n.value # NoneNode
            /\ n.node_type = "BinaryOperation" /\ "operator" \in DOMAIN n =>
                   n.left # NoneNode /\ n.right # NoneNode
            /\ n.node_type = "UnaryOperation" => Len(n.children) = 1

\* C20: for every identifier X, class X { }, with or without a trailing EOF
\* token, parses to a Program with exactly one class, named X, whose
\* fields, methods, constructors and modifiers are all empty.
MinimalClassParsed ==
    \A name \in ClassNames, end \in {<<>>, <<Eof>>} :
        Finished /\ tokens = MinimalClass(name, end) =>
            /\ pc = "returned"
            /\ program.node_type = "Program"
            /\ Len(program.classes) = 1
            /\ OnlyClass(program).node_type = "ClassDeclaration"
            /\ OnlyClass(program).name = name[2]
            /\ OnlyClass(program).fields = <<>>
            /\ OnlyClass(program).methods = <<>>
            /\ OnlyClass(program).constructors = <<>>
            /\ OnlyClass(program).modifiers = <<>>

\* class String { } followed by the EOF token was parsed.
MinimalClassWithEofParsed ==
    /\ pc = "returned"
    /\ tokens = MinimalClass(IdString, <<Eof>>)
    /\ Names(program.classes) = <<"String">>

\* The node type the statement that starts with the keyword tok is to have.
JumpNodeType(tok) ==
    IF IsKeyword(tok, "break") THEN "BreakStatement" ELSE "ContinueStatement"

\* C21: a break or continue statement in a block, with or without a label,
\* yields a BreakStatement or ContinueStatement node in that block, with
\* the label recorded when present, and the tokens through the ";" are
\* consumed: parse() returns and nothing was given up on or skipped.
BreakContinueParsed ==
    Finished /\ tokens \in BreakContinueInputs =>
        /\ pc = "returned"
        /\ ~recovered
        /\ LET stmt == OnlyStatement(program)
               keyword == tokens[Len(BlockPrefix) + 1]
               after == tokens[Len(BlockPrefix) + 2]
           IN /\ stmt # NoneNode
              /\ stmt.node_type = JumpNodeType(keyword)
              /\ TokenIndex(stmt) = Len(BlockPrefix)
              /\ after.type = "IDENTIFIER" =>
                    "label" \in DOMAIN stmt /\ stmt.label = after.lexeme

\* The cursor position p is at end-of-stream: past the last token or on the
\* EOF token.
AtEndOfStream(p) == p >= Len(tokens) \/ tokens[p + 1].type = "EOF"

\* C22: every _recover_from_error that returned true left the cursor at
\* end-of-stream or strictly beyond the position the failed protected
\* attempt started at.
RecoveryMovesPastAttempt ==
    \A i \in 1..Len(trace) :
        trace[i].by = "_recover_from_error" =>
            AtEndOfStream(trace[i].stop) \/ trace[i].stop > trace[i].start

\* C23: in class, interface and enum bodies alike, a member attempt that
\* yields no member never leaves the cursor in place: on a body whose only
\* token starts no member, parse() does not stay for ever on that token,
\* the first token of the body.
MemberLoopLeavesStrayToken ==
    tokens \in StrayMemberInputs =>
        ~(pc = "hang" /\ pos = Len(BodyPrefix(KwClass)))

\* The parser with its cursor moved to position p of the tokens.
CursorAt(p) == reset_to_position(Self, p)

\* The speculative lookaheads as they answer in the state st; the two that
\* are called on a "(" only are taken on a "(" only.
Lookaheads(st) ==
    {is_local_variable_declaration(st), is_variable_declaration(st),
     lookahead_for_constructor(st)}
        \cup IF match(st, "SEPARATOR", "(")
             THEN {lookahead_for_cast(st), lookahead_for_lambda(st)}
             ELSE {}

\* C24: every speculative lookahead returns with the cursor position and
\* the current token as they were when it was called, whatever it answers,
\* at every position of every token list.
LookaheadsRestoreCursor ==
    pc = "constructed" =>
        \A p \in 0..Len(tokens) :
            \A answer \in Lookaheads(CursorAt(p)) :
                /\ answer.st.pos = p
                /\ answer.st.current_token = CursorAt(p).current_token

\* C25: after any sequence of advance, expect, match and resets to saved
\* positions, 0 <= pos <= len(tokens), current_token is tokens[pos] when
\* pos < len(tokens) and absent otherwise, and an advance at end-of-stream
\* left the cursor at end-of-stream.
CursorWithinTokens ==
    /\ pos \in 0..Len(tokens)
    /\ current_token = IF pos < Len(tokens) THEN tokens[pos + 1] ELSE NoToken
    /\ \A i \in DOMAIN trace :
          trace[i].by = "_advance" /\ trace[i].start = Len(tokens) =>
              pos = Len(tokens) /\ current_token = NoToken

AdvancedAtEndOfStream ==
    /\ tokens # <<>>
    /\ trace # <<>>
    /\ trace[1].by = "_advance"
    /\ trace[1].start = Len(tokens)
    /\ error_recovery_points # <<>>

\* The synchronization tokens of the recovery: the keywords it stops before
\* and the separators it stops after.
SyncKeywords == {"class", "import", "interface", "enum"}
SyncSeparators == {";", "}"}

IsSyncKeyword(tok) == tok.type = "KEYWORD" /\ tok.lexeme \in SyncKeywords
IsSyncSeparator(tok) == tok.type = "SEPARATOR" /\ tok.lexeme \in SyncSeparators

\* The recovery r skipped the tokens r.start .. r.stop - 1 and no token
\* beyond the first synchronization token: none of them is a keyword to stop
\* before, only the last may be a separator to stop after, and the recovery
\* stopped after such a separator, before such a keyword or at
\* end-of-stream.
StopsAtFirstSync(r) ==
    /\ \A j \in r.start .. r.stop - 1 :
          /\ ~IsSyncKeyword(TokenAt(j))
          /\ IsSyncSeparator(TokenAt(j)) => j = r.stop - 1
    /\ \/ AtEndOfStream(r.stop)
       \/ IsSyncKeyword(TokenAt(r.stop))
       \/ r.stop > r.start /\ IsSyncSeparator(TokenAt(r.stop - 1))

\* C26: a recovery after a failure at program level skips tokens up to the
\* first class, import, interface or enum keyword (not consumed), the first
\* ";" or "}" (consumed) or end-of-stream, and no token beyond it.
RecoveryStopsAtFirstSync ==
    \A i \in 1..Len(trace) :
        trace[i].by = "_recover_from_error" => StopsAtFirstSync(trace[i])

\* C27: a match never moves the cursor and never raises, with or without a
\* current token; an expect that succeeds returns the token that was current
\* and moves the cursor on by exactly one token; an expect that fails leaves
\* the cursor where it was.
ExpectAndMatchMoveCursorAsSpecified ==
    \A i \in DOMAIN trace :
        LET call == trace[i]
        IN /\ call.by = "_match" =>
                 /\ raised = NoExc
                 /\ program \in BOOLEAN
                 /\ pos = call.start
                 /\ current_token = CursorAt(call.start).current_token
           /\ call.by = "_expect" /\ raised = NoExc =>
                 /\ call.start < Len(tokens)
                 /\ program = TokenAt(call.start)
                 /\ pos = call.start + 1
                 /\ current_token = CursorAt(call.start + 1).current_token
           /\ call.by = "_expect" /\ raised # NoExc =>
                 /\ pos = call.start
                 /\ current_token = CursorAt(call.start).current_token

\* An expect succeeded on the last token of a longest token list.
ExpectSucceededOnLastToken ==
    /\ trace # <<>>
    /\ trace[1].by = "_expect"
    /\ raised = NoExc
    /\ Len(tokens) = MaxLen
    /\ pos = Len(tokens)

\* C28: every three-clause ForStatement node has exactly four children, in
\* the order init, condition, update, body, where an empty clause is a
\* placeholder node: for every choice of empty clauses the body Block is the
\* fourth child and no child is None.
ForStatementHasFourChildren ==
    Finished /\ tokens \in ForClauseInputs =>
        /\ pc = "returned"
        /\ LET stmt == OnlyStatement(program)
           IN /\ stmt # NoneNode
              /\ stmt.node_type = "ForStatement"
              /\ Len(stmt.children) = 4
              /\ \A i \in 1..4 : stmt.children[i] # NoneNode
              /\ stmt.children[4].node_type = "Block"

\* The tokens that end an expression for the enclosing production.
Terminators == {";", ")", "}"}

IsTerminator(tok) == tok.type = "SEPARATOR" /\ tok.lexeme \in Terminators

\* C29: when the primary-expression production is tried on a terminator
\* ";", ")" or "}", matches nothing and returns None, the cursor is still on
\* that token, at every position of every token list.
PrimaryLeavesTerminator ==
    pc = "constructed" =>
        \A p \in 0..Len(tokens) - 1 :
            IsTerminator(TokenAt(p)) =>
                LET primary == self("parse_primary_expression", CursorAt(p),
                                   <<>>)
                IN primary.exc = NoExc /\ primary.val = NoneNode =>
                       /\ primary.st.pos = p
                       /\ primary.st.current_token = TokenAt(p)

\* C30: the recovery-point stack is balanced: every protected attempt
\* removes the recovery point it pushed, however it ends, so the stack is
\* empty between the top-level attempts of parse() and whenever parse()
\* returns or raises.
RecoveryStackBalanced ==
    pc \in {"loop", "returned", "raised"} => error_recovery_points = <<>>

====
